---- MODULE Spec2Model ----
(***************************************************************************)
(* A model of CloudFormationGraph (src/src/graph.ts): the node map, the    *)
(* edge list and the export registry, with the operations addNode,         *)
(* removeNode, addEdge, removeEdge, registerExport and moveNode, and of    *)
(* CloudFormationParser (src/src/index.ts), which builds a graph from      *)
(* templates through these operations.                                     *)
(*                                                                         *)
(* Strings that the code builds or takes apart (qualified ids, export      *)
(* names) are sequences of tokens, so that `${stackId}.${logicalId}` is a  *)
(* concatenation and getLogicalId a split at the first "." token.  A       *)
(* JavaScript Map is a sequence of entries in insertion order.             *)
(***************************************************************************)
EXTENDS Naturals, Sequences, FiniteSets

VARIABLES nodes, edges, exports, last, history, reversed, templates

vars == <<nodes, edges, exports, last, history, reversed, templates>>

(***************************************************************************)
(* Bounds of the model.                                                    *)
(***************************************************************************)
MaxCalls == 3
MaxEdges == 3

(***************************************************************************)
(* Values.                                                                 *)
(***************************************************************************)
Undefined == "undefined"

DEPENDS_ON == "DependsOn"
REFERENCE == "Reference"
GET_ATT == "GetAtt"
IMPORT_VALUE == "ImportValue"
EXPORT == "Export"

EdgeType == {DEPENDS_ON, REFERENCE, GET_ATT, IMPORT_VALUE, EXPORT}

(* The recursive property tree: a string, an array or an object (ordered   *)
(* keys).  undefined is the value of an absent optional field.             *)
Undef == [t |-> "undefined", s |-> <<>>, keys |-> <<>>, kids |-> <<>>]
Str(x) == [t |-> "string", s |-> x, keys |-> <<>>, kids |-> <<>>]
Arr(xs) == [t |-> "array", s |-> <<>>, keys |-> <<>>, kids |-> xs]
Obj(ks, vs) == [t |-> "object", s |-> <<>>, keys |-> ks, kids |-> vs]

Ref(logicalId) == Obj(<<"Ref">>, <<Str(logicalId)>>)
GetAtt(logicalId, attr) == Obj(<<"Fn::GetAtt">>, <<Arr(<<Str(logicalId), Str(attr)>>)>>)

(* obj[key] of a JavaScript object: the value under the key, or undefined. *)
Field(obj, key) ==
  IF obj.t = "object" /\ \E i \in 1..Len(obj.keys) : obj.keys[i] = key
  THEN obj.kids[CHOOSE i \in 1..Len(obj.keys) : obj.keys[i] = key]
  ELSE Undef

(***************************************************************************)
(* Sequences as Maps and arrays.                                           *)
(***************************************************************************)
RECURSIVE SelectIdx(_, _, _)
SelectIdx(seq, keep, i) ==
  IF i > Len(seq) THEN <<>>
  ELSE IF i \in keep THEN <<seq[i]>> \o SelectIdx(seq, keep, i + 1)
  ELSE SelectIdx(seq, keep, i + 1)

Range(seq) == {seq[i] : i \in 1..Len(seq)}

(***************************************************************************)
(* Qualified ids.                                                          *)
(***************************************************************************)
getQualifiedId(stackId, logicalId) == stackId \o <<".">> \o logicalId

getLogicalId(qualifiedId) ==
  IF \E i \in 1..Len(qualifiedId) : qualifiedId[i] = "."
  THEN LET first == CHOOSE i \in 1..Len(qualifiedId) :
                      /\ qualifiedId[i] = "."
                      /\ \A j \in 1..(i - 1) : qualifiedId[j] # "."
       IN SubSeq(qualifiedId, first + 1, Len(qualifiedId))
  ELSE qualifiedId

(***************************************************************************)
(* The node map: this.nodes.                                               *)
(***************************************************************************)
HasNode(ns, id) == \E i \in 1..Len(ns) : ns[i].id = id

GetNode(ns, id) == ns[CHOOSE i \in 1..Len(ns) : ns[i].id = id]

NodesSet(ns, node) ==
  IF HasNode(ns, node.id)
  THEN [i \in 1..Len(ns) |-> IF ns[i].id = node.id THEN node ELSE ns[i]]
  ELSE Append(ns, node)

NodesDelete(ns, id) == SelectIdx(ns, {i \in 1..Len(ns) : ns[i].id # id}, 1)

(***************************************************************************)
(* The export registry: this.exports, exportName -> {nodeId, outputId,     *)
(* value}.                                                                 *)
(***************************************************************************)
HasExport(es, name) == \E i \in 1..Len(es) : es[i].name = name

ExportsSet(es, name, info) ==
  LET entry == [name |-> name, nodeId |-> info.nodeId,
                outputId |-> info.outputId, value |-> info.value]
  IN IF HasExport(es, name)
     THEN [i \in 1..Len(es) |-> IF es[i].name = name THEN entry ELSE es[i]]
     ELSE Append(es, entry)

ExportsDelete(es, name) == SelectIdx(es, {i \in 1..Len(es) : es[i].name # name}, 1)

(***************************************************************************)
(* removeNode(id): the node, its edges and the exports sourced from it.    *)
(***************************************************************************)
(* A removal that forgets the edges that point to the node.                *)
removeNodeEdgesOutgoingOnly(es, id) ==
  SelectIdx(es, {i \in 1..Len(es) : es[i].from # id}, 1)

removeNodeEdges(es, id) ==
  SelectIdx(es, {i \in 1..Len(es) : es[i].from # id /\ es[i].to # id}, 1)

removeNodeExports(xs, id) ==
  SelectIdx(xs, {i \in 1..Len(xs) : xs[i].nodeId # id}, 1)

(***************************************************************************)
(* addEdge(edge): the endpoint check, then the push.                       *)
(***************************************************************************)
(* A check that lets an edge with one missing endpoint through.            *)
addEdgeThrowsBothMissing(ns, edge) == ~HasNode(ns, edge.from) /\ ~HasNode(ns, edge.to)

addEdgeThrows(ns, edge) == ~HasNode(ns, edge.from) \/ ~HasNode(ns, edge.to)

addEdgePush(es, edge) == Append(es, edge)

(***************************************************************************)
(* removeEdge(from, to).                                                   *)
(***************************************************************************)
removeEdgeFilter(es, from, to) ==
  SelectIdx(es, {i \in 1..Len(es) : ~(es[i].from = from /\ es[i].to = to)}, 1)

(***************************************************************************)
(* registerExport(exportName, nodeId, outputId?, value?).  An omitted      *)
(* outputId is the empty string: both are falsy in `outputId || ...`.      *)
(***************************************************************************)
registerExportInfo(nodeId, outputId, value) ==
  [nodeId |-> nodeId,
   outputId |-> IF outputId = <<>> THEN getLogicalId(nodeId) ELSE outputId,
   value |-> value]

(***************************************************************************)
(* moveNode(from, to).                                                     *)
(***************************************************************************)
NotFound == "NotFound"
AlreadyExists == "AlreadyExists"
NoError == "none"

(* const movedNode = {...node, id: newQualifiedId, stackId: to.stackId}    *)
movedNodeOf(node, newQualifiedId, toStackId) ==
  [node EXCEPT !.id = newQualifiedId, !.stackId = toStackId]

(* A pass that moves the endpoints and drops the DependsOn edges but       *)
(* leaves the type of a crossing reference as it is.                       *)
updateEdgeKeepsType(ns, edge, currentId, newQualifiedId, isMovingAcrossStacks, to, movedNode) ==
  LET fromIsCurrent == edge.from = currentId
      toIsCurrent == edge.to = currentId
      toNodeCrosses ==
        /\ fromIsCurrent
        /\ HasNode(ns, edge.to)
        /\ isMovingAcrossStacks
        /\ GetNode(ns, edge.to).stackId # to.stackId
      fromNodeCrosses ==
        /\ toIsCurrent
        /\ HasNode(ns, edge.from)
        /\ isMovingAcrossStacks
        /\ GetNode(ns, edge.from).stackId # to.stackId
      crosses == toNodeCrosses \/ fromNodeCrosses
      isRef == edge.type \in {REFERENCE, GET_ATT}
  IN [updatedEdge |->
        [from |-> IF fromIsCurrent THEN newQualifiedId ELSE edge.from,
         to |-> IF toIsCurrent THEN newQualifiedId ELSE edge.to,
         type |-> edge.type,
         crossStack |-> IF crosses THEN "true" ELSE edge.crossStack],
      shouldKeepEdge |-> ~(crosses /\ edge.type = DEPENDS_ON),
      toConvert |->
        (IF toNodeCrosses /\ isRef
         THEN <<[edge |-> edge, targetNode |-> GetNode(ns, edge.to)]>> ELSE <<>>)
        \o (IF fromNodeCrosses /\ isRef
            THEN <<[edge |-> edge, targetNode |-> movedNode]>> ELSE <<>>)]

(* One pass of the loop over this.edges: the updated edge, whether it is   *)
(* kept, and what it adds to edgesToConvert.  ns is the node map before    *)
(* the move is applied.                                                    *)
updateEdge(ns, edge, currentId, newQualifiedId, isMovingAcrossStacks, to, movedNode) ==
  LET fromIsCurrent == edge.from = currentId
      toIsCurrent == edge.to = currentId
      toNodeCrosses ==
        /\ fromIsCurrent
        /\ HasNode(ns, edge.to)
        /\ isMovingAcrossStacks
        /\ GetNode(ns, edge.to).stackId # to.stackId
      fromNodeCrosses ==
        /\ toIsCurrent
        /\ HasNode(ns, edge.from)
        /\ isMovingAcrossStacks
        /\ GetNode(ns, edge.from).stackId # to.stackId
      crosses == toNodeCrosses \/ fromNodeCrosses
      isRef == edge.type \in {REFERENCE, GET_ATT}
  IN [updatedEdge |->
        [from |-> IF fromIsCurrent THEN newQualifiedId ELSE edge.from,
         to |-> IF toIsCurrent THEN newQualifiedId ELSE edge.to,
         type |-> IF crosses /\ isRef THEN IMPORT_VALUE ELSE edge.type,
         crossStack |-> IF crosses THEN "true" ELSE edge.crossStack],
      shouldKeepEdge |-> ~(crosses /\ edge.type = DEPENDS_ON),
      toConvert |->
        (IF toNodeCrosses /\ isRef
         THEN <<[edge |-> edge, targetNode |-> GetNode(ns, edge.to)]>> ELSE <<>>)
        \o (IF fromNodeCrosses /\ isRef
            THEN <<[edge |-> edge, targetNode |-> movedNode]>> ELSE <<>>)]

RECURSIVE updatedEdgesFrom(_, _, _, _, _, _, _, _)
updatedEdgesFrom(ns, es, i, currentId, newQualifiedId, isMovingAcrossStacks, to, movedNode) ==
  IF i > Len(es) THEN <<>>
  ELSE LET u == updateEdge(ns, es[i], currentId, newQualifiedId,
                           isMovingAcrossStacks, to, movedNode)
       IN (IF u.shouldKeepEdge THEN <<u.updatedEdge>> ELSE <<>>)
          \o updatedEdgesFrom(ns, es, i + 1, currentId, newQualifiedId,
                              isMovingAcrossStacks, to, movedNode)

RECURSIVE edgesToConvertFrom(_, _, _, _, _, _, _, _)
edgesToConvertFrom(ns, es, i, currentId, newQualifiedId, isMovingAcrossStacks, to, movedNode) ==
  IF i > Len(es) THEN <<>>
  ELSE updateEdge(ns, es[i], currentId, newQualifiedId,
                  isMovingAcrossStacks, to, movedNode).toConvert
       \o edgesToConvertFrom(ns, es, i + 1, currentId, newQualifiedId,
                             isMovingAcrossStacks, to, movedNode)

(* updateReferencesInProperties(obj, oldLogicalId, newLogicalId)           *)
RECURSIVE updateReferencesInProperties(_, _, _)
updateReferencesInProperties(obj, oldLogicalId, newLogicalId) ==
  IF obj.t \notin {"object", "array"} THEN obj
  ELSE IF obj.t = "array"
  THEN Arr([i \in 1..Len(obj.kids) |->
              updateReferencesInProperties(obj.kids[i], oldLogicalId, newLogicalId)])
  ELSE IF Field(obj, "Ref") = Str(oldLogicalId)
  THEN Ref(newLogicalId)
  ELSE LET attr == Field(obj, "Fn::GetAtt")
       IN IF /\ attr.t = "array"
             /\ Len(attr.kids) > 0
             /\ attr.kids[1] = Str(oldLogicalId)
          THEN Obj(<<"Fn::GetAtt">>, <<Arr(<<Str(newLogicalId)>> \o Tail(attr.kids))>>)
          ELSE Obj(obj.keys,
                   [i \in 1..Len(obj.kids) |->
                      updateReferencesInProperties(obj.kids[i], oldLogicalId, newLogicalId)])

(* The loop that rewrites the properties of the other nodes of the stack   *)
(* on a rename.                                                            *)
renameInStack(ns, currentId, fromStackId, oldLogicalId, newLogicalId) ==
  [i \in 1..Len(ns) |->
     IF ns[i].id # currentId /\ ns[i].stackId = fromStackId
     THEN [ns[i] EXCEPT !.properties =
             updateReferencesInProperties(ns[i].properties, oldLogicalId, newLogicalId)]
     ELSE ns[i]]

(* exportsToUpdate, applied: the exports of the moved node follow it.      *)
updateExports(xs, currentId, newQualifiedId) ==
  [i \in 1..Len(xs) |->
     IF xs[i].nodeId = currentId THEN [xs[i] EXCEPT !.nodeId = newQualifiedId]
     ELSE xs[i]]

(* A search that never finds an existing export.                           *)
exportNameForNone(xs, targetNode) == <<>>

(* convertReferencesToImports(movedNodeId, edgesToConvert): the search for *)
(* an export of the target, the creation of one, and the loop.             *)
exportNameFor(xs, targetNode) ==
  IF \E i \in 1..Len(xs) : xs[i].nodeId = targetNode.id
  THEN xs[CHOOSE i \in 1..Len(xs) :
            /\ xs[i].nodeId = targetNode.id
            /\ \A j \in 1..(i - 1) : xs[j].nodeId # targetNode.id].name
  ELSE <<>>

createExport(xs, targetNode) ==
  LET targetLogicalId == getLogicalId(targetNode.id)
  IN ExportsSet(xs, targetNode.stackId \o <<"-">> \o targetLogicalId,
                [nodeId |-> targetNode.id, outputId |-> targetLogicalId,
                 value |-> Ref(targetLogicalId)])

RECURSIVE convertReferencesToImports(_, _, _)
convertReferencesToImports(xs, edgesToConvert, i) ==
  IF i > Len(edgesToConvert) THEN xs
  ELSE LET targetNode == edgesToConvert[i].targetNode
       IN convertReferencesToImports(
            IF exportNameFor(xs, targetNode) = <<>>
            THEN createExport(xs, targetNode) ELSE xs,
            edgesToConvert, i + 1)

(* The checks in the other order: the target before the source.            *)
moveNodeThrowsTargetFirst(ns, currentId, newQualifiedId) ==
  IF newQualifiedId # currentId /\ HasNode(ns, newQualifiedId) THEN AlreadyExists
  ELSE IF ~HasNode(ns, currentId) THEN NotFound
  ELSE NoError

(* The checks without the one on the target.                               *)
moveNodeThrowsSourceOnly(ns, currentId, newQualifiedId) ==
  IF ~HasNode(ns, currentId) THEN NotFound ELSE NoError

(* The two precondition checks, in the order of the code: the error thrown *)
(* or none.                                                                *)
moveNodeThrows(ns, currentId, newQualifiedId) ==
  IF ~HasNode(ns, currentId) THEN NotFound
  ELSE IF newQualifiedId # currentId /\ HasNode(ns, newQualifiedId) THEN AlreadyExists
  ELSE NoError

(* A move that never returns early.                                        *)
noMoveNeededNever(currentId, newQualifiedId) == FALSE

(* "If the ID is the same, no move needed".                                *)
noMoveNeeded(currentId, newQualifiedId) == currentId = newQualifiedId

(* The whole call on a graph [nodes, edges, exports]: the graph after it,  *)
(* the error thrown, the path taken and the targets of edgesToConvert.     *)
moveNode(g, from, to) ==
  LET currentId == getQualifiedId(from.stackId, from.logicalId)
      newQualifiedId == getQualifiedId(to.stackId, to.logicalId)
      unchanged(err, path) ==
        [nodes |-> g.nodes, edges |-> g.edges, exports |-> g.exports,
         err |-> err, path |-> path, targets |-> <<>>]
      thrown == moveNodeThrows(g.nodes, currentId, newQualifiedId)
  IN IF thrown # NoError THEN unchanged(thrown, "throw")
     ELSE IF noMoveNeeded(currentId, newQualifiedId) THEN unchanged(NoError, "same")
     ELSE
       LET node == GetNode(g.nodes, currentId)
           isMovingAcrossStacks == from.stackId # to.stackId
           movedNode == movedNodeOf(node, newQualifiedId, to.stackId)
           updatedEdges ==
             updatedEdgesFrom(g.nodes, g.edges, 1, currentId, newQualifiedId,
                              isMovingAcrossStacks, to, movedNode)
           edgesToConvert ==
             edgesToConvertFrom(g.nodes, g.edges, 1, currentId, newQualifiedId,
                                isMovingAcrossStacks, to, movedNode)
           renamed ==
             IF ~isMovingAcrossStacks /\ from.logicalId # to.logicalId
             THEN renameInStack(g.nodes, currentId, from.stackId,
                                from.logicalId, to.logicalId)
             ELSE g.nodes
           updatedExports == updateExports(g.exports, currentId, newQualifiedId)
       IN [nodes |-> NodesSet(NodesDelete(renamed, currentId), movedNode),
           edges |-> updatedEdges,
           exports |-> IF isMovingAcrossStacks /\ Len(edgesToConvert) > 0
                       THEN convertReferencesToImports(updatedExports, edgesToConvert, 1)
                       ELSE updatedExports,
           err |-> NoError,
           path |-> IF isMovingAcrossStacks THEN "cross" ELSE "rename",
           targets |-> [i \in 1..Len(edgesToConvert) |->
                          edgesToConvert[i].targetNode.id]]

(***************************************************************************)
(* getAllNodesSorted(): the depth-first visit with the sets visited and    *)
(* temp and the list result; thrown is the exception that unwinds it.      *)
(***************************************************************************)
CycleDetected == "CycleDetected"

(* getDependencies(nodeId): the targets of the edges from the node.        *)
getDependencies(es, nodeId) ==
  LET out == SelectIdx(es, {i \in 1..Len(es) : es[i].from = nodeId}, 1)
  IN [i \in 1..Len(out) |-> out[i].to]

RECURSIVE visit(_, _, _)
RECURSIVE visitDeps(_, _, _, _)
(* A visit that emits the node before its dependencies.                    *)
visitPreOrder(es, st, nodeId) ==
  IF st.thrown THEN st
  ELSE IF nodeId \in st.temp THEN [st EXCEPT !.thrown = TRUE]
  ELSE IF nodeId \in st.visited THEN st
  ELSE LET after == visitDeps(es, [st EXCEPT !.temp = @ \cup {nodeId},
                                             !.result = Append(@, nodeId)],
                              getDependencies(es, nodeId), 1)
       IN IF after.thrown THEN after
          ELSE [after EXCEPT !.temp = @ \ {nodeId},
                             !.visited = @ \cup {nodeId}]

(* A visit that leaves the node in temp when it is done.                   *)
visitKeepsTemp(es, st, nodeId) ==
  IF st.thrown THEN st
  ELSE IF nodeId \in st.temp THEN [st EXCEPT !.thrown = TRUE]
  ELSE IF nodeId \in st.visited THEN st
  ELSE LET after == visitDeps(es, [st EXCEPT !.temp = @ \cup {nodeId}],
                              getDependencies(es, nodeId), 1)
       IN IF after.thrown THEN after
          ELSE [after EXCEPT !.visited = @ \cup {nodeId},
                             !.result = Append(@, nodeId)]

visit(es, st, nodeId) ==
  IF st.thrown THEN st
  ELSE IF nodeId \in st.temp THEN [st EXCEPT !.thrown = TRUE]
  ELSE IF nodeId \in st.visited THEN st
  ELSE LET after == visitDeps(es, [st EXCEPT !.temp = @ \cup {nodeId}],
                              getDependencies(es, nodeId), 1)
       IN IF after.thrown THEN after
          ELSE [after EXCEPT !.temp = @ \ {nodeId},
                             !.visited = @ \cup {nodeId},
                             !.result = Append(@, nodeId)]

visitDeps(es, st, deps, i) ==
  IF i > Len(deps) \/ st.thrown THEN st
  ELSE visitDeps(es, visit(es, st, deps[i]), deps, i + 1)

RECURSIVE visitNodes(_, _, _, _)
(* A loop that takes the keys from the last to the first.                  *)
visitNodesBackwards(ns, es, st, i) ==
  IF i > Len(ns) \/ st.thrown THEN st
  ELSE LET id == ns[Len(ns) + 1 - i].id
       IN visitNodes(ns, es, IF id \in st.visited THEN st ELSE visit(es, st, id), i + 1)

(* The loop over this.nodes.keys().                                        *)
visitNodes(ns, es, st, i) ==
  IF i > Len(ns) \/ st.thrown THEN st
  ELSE visitNodes(ns, es,
                  IF ns[i].id \in st.visited THEN st ELSE visit(es, st, ns[i].id),
                  i + 1)

(* this.nodes.get(id)! of an id that is no key of the map.                 *)
UndefinedNode ==
  [id |-> <<>>, type |-> Undefined, properties |-> Undef, metadata |-> Undef,
   stackId |-> <<>>]

(* The call: the error thrown, or the nodes in the order of result.        *)
getAllNodesSorted(ns, es) ==
  LET st == visitNodes(ns, es,
                       [visited |-> {}, temp |-> {}, result |-> <<>>, thrown |-> FALSE], 1)
  IN IF st.thrown THEN [err |-> CycleDetected, result |-> <<>>]
     ELSE [err |-> NoError,
           result |-> [i \in 1..Len(st.result) |->
                         IF HasNode(ns, st.result[i]) THEN GetNode(ns, st.result[i])
                         ELSE UndefinedNode]]

(***************************************************************************)
(* opposite(): a new graph with the node map of this one (the same Map,    *)
(* not a copy), the edges reversed and the exports set again in order.     *)
(***************************************************************************)
(* An edge that loses its crossStack flag on the way.                      *)
reverseEdgeNoFlag(edge) ==
  [from |-> edge.to, to |-> edge.from, type |-> edge.type, crossStack |-> Undefined]

(* An edge of which only the source is replaced.                           *)
reverseEdgeSourceOnly(edge) == [edge EXCEPT !.from = edge.to]

(* { ...edge, from: edge.to, to: edge.from }                               *)
reverseEdge(edge) == [edge EXCEPT !.from = edge.to, !.to = edge.from]

RECURSIVE oppositeExports(_, _, _)
oppositeExports(reversedExports, xs, i) ==
  IF i > Len(xs) THEN reversedExports
  ELSE oppositeExports(ExportsSet(reversedExports, xs[i].name, xs[i]), xs, i + 1)

opposite(g) ==
  [nodes |-> g.nodes,
   edges |-> [i \in 1..Len(g.edges) |-> reverseEdge(g.edges[i])],
   exports |-> oppositeExports(<<>>, g.exports, 1)]

(***************************************************************************)
(* The readers.  A JavaScript object is returned by reference: what a      *)
(* reader hands out is named here by the place of the object in the graph  *)
(* (the node kept under an id, the edge at an index, the export entry kept *)
(* under a name), and a write through such a reference is a write to the   *)
(* object kept there.  The arrays and the Map the readers build are new.   *)
(***************************************************************************)
NodeObject(id) == [heap |-> "nodes", at |-> id]
EdgeObject(i) == [heap |-> "edges", at |-> i]
ExportObject(name) == [heap |-> "exports", at |-> name]

(* return this.nodes.get(id)                                               *)
getNode(ns, id) == IF HasNode(ns, id) THEN NodeObject(id) ELSE Undefined

(* Array.from(this.nodes.values())                                         *)
getAllNodes(ns) == [i \in 1..Len(ns) |-> NodeObject(ns[i].id)]

getNodesByStack(ns, stackId) ==
  SelectIdx(getAllNodes(ns), {i \in 1..Len(ns) : ns[i].stackId = stackId}, 1)

(* [...this.edges], or the edges at the node when an id is given (<<>> is  *)
(* the argument left out)                                                  *)
getEdges(es, nodeId) ==
  LET all == [i \in 1..Len(es) |-> EdgeObject(i)]
  IN IF nodeId = <<>> THEN all
     ELSE SelectIdx(all, {i \in 1..Len(es) : es[i].from = nodeId \/ es[i].to = nodeId}, 1)

(* new Map(this.exports): the entries of a new Map, name and value         *)
getExports(xs) == [i \in 1..Len(xs) |-> [name |-> xs[i].name, info |-> ExportObject(xs[i].name)]]

(* object.field = value, for an object of the graph                        *)
assign(g, object, field, value) ==
  IF object.heap = "nodes"
  THEN [g EXCEPT !.nodes = [i \in 1..Len(g.nodes) |->
          IF g.nodes[i].id = object.at THEN [g.nodes[i] EXCEPT ![field] = value]
          ELSE g.nodes[i]]]
  ELSE IF object.heap = "edges"
  THEN [g EXCEPT !.edges = [i \in 1..Len(g.edges) |->
          IF i = object.at THEN [g.edges[i] EXCEPT ![field] = value]
          ELSE g.edges[i]]]
  ELSE [g EXCEPT !.exports = [i \in 1..Len(g.exports) |->
          IF g.exports[i].name = object.at THEN [g.exports[i] EXCEPT ![field] = value]
          ELSE g.exports[i]]]

(***************************************************************************)
(* CloudFormationParser: parse and parseMultiple.  A template is a stack   *)
(* id, the Resources in document order and the Outputs in document order. *)
(* The operations below work on a graph value [nodes, edges, exports].     *)
(***************************************************************************)
EmptyObject == Obj(<<>>, <<>>)
EmptyGraph == [nodes |-> <<>>, edges |-> <<>>, exports |-> <<>>]

AddUnique(seq, x) == IF x \in Range(seq) THEN seq ELSE Append(seq, x)

(* findReferences(obj, refs): the names under Ref and Fn::GetAtt, in the   *)
(* order of their first occurrence.                                        *)
RECURSIVE findReferences(_, _)
RECURSIVE findReferencesInValues(_, _, _)
findReferences(obj, refs) ==
  IF obj.t \notin {"object", "array"} THEN refs
  ELSE LET ref == Field(obj, "Ref")
           att == Field(obj, "Fn::GetAtt")
           withRef == IF ref.t = "string" /\ ref.s # <<>>
                      THEN AddUnique(refs, ref.s) ELSE refs
           withAtt ==
             IF att.t = "array" /\ Len(att.kids) > 0 /\ att.kids[1].t = "string"
             THEN AddUnique(withRef, att.kids[1].s)
             ELSE IF att.t = "string" /\ att.s # <<>>
             THEN AddUnique(withRef, att.s)
             ELSE withRef
       IN findReferencesInValues(obj, 1, withAtt)

findReferencesInValues(obj, i, refs) ==
  IF i > Len(obj.kids) THEN refs
  ELSE findReferencesInValues(obj, i + 1, findReferences(obj.kids[i], refs))

(* findImports(obj, imports): the export names under Fn::ImportValue.  The *)
(* templates parsed here import by a plain name; an import whose name is   *)
(* an object (resolveExportName) does not occur in them.                   *)
RECURSIVE findImports(_, _)
RECURSIVE findImportsInValues(_, _, _)
findImports(obj, imports) ==
  IF obj.t \notin {"object", "array"} THEN imports
  ELSE LET imp == Field(obj, "Fn::ImportValue")
           withImp == IF imp.t = "string" /\ imp.s # <<>>
                      THEN AddUnique(imports, imp.s) ELSE imports
       IN findImportsInValues(obj, 1, withImp)

findImportsInValues(obj, i, imports) ==
  IF i > Len(obj.kids) THEN imports
  ELSE findImportsInValues(obj, i + 1, findImports(obj.kids[i], imports))

(* getExportNode(exportName): the node id, or the empty id if none.        *)
getExportNode(xs, exportName) ==
  IF HasExport(xs, exportName)
  THEN xs[CHOOSE i \in 1..Len(xs) : xs[i].name = exportName].nodeId
  ELSE <<>>

(* graph.addEdge from the parser; the templates parsed here never make it  *)
(* throw, which would abort the parse.                                     *)
graphAddEdge(g, edge) ==
  IF addEdgeThrows(g.nodes, edge) THEN g
  ELSE [g EXCEPT !.edges = addEdgePush(g.edges, edge)]

ImportEdge(from, to) ==
  [from |-> from, to |-> to, type |-> IMPORT_VALUE, crossStack |-> "true"]

(* The node of a resource.                                                 *)
resourceNode(stackId, resource) ==
  [id |-> getQualifiedId(stackId, resource.logicalId),
   type |-> resource.Type,
   properties |-> resource.Properties,
   metadata |->
     IF resource.DeletionPolicy # <<>>
     THEN Obj(resource.Metadata.keys \o <<"DeletionPolicy">>,
              resource.Metadata.kids \o <<Str(resource.DeletionPolicy)>>)
     ELSE resource.Metadata,
   stackId |-> stackId]

RECURSIVE parseNodes(_, _, _, _)
parseNodes(g, stackId, resources, i) ==
  IF i > Len(resources) THEN g
  ELSE parseNodes([g EXCEPT !.nodes = NodesSet(g.nodes, resourceNode(stackId, resources[i]))],
                  stackId, resources, i + 1)

(* Register exports: the source is the first name the output's value       *)
(* refers to.                                                              *)
RECURSIVE parseOutputs(_, _, _, _)
parseOutputs(g, stackId, outputs, i) ==
  IF i > Len(outputs) THEN g
  ELSE LET output == outputs[i]
           sourceRefs == findReferences(output.Value, <<>>)
       IN parseOutputs(
            IF output.ExportName # <<>> /\ Len(sourceRefs) > 0
            THEN [g EXCEPT !.exports =
                    ExportsSet(g.exports, output.ExportName,
                               registerExportInfo(getQualifiedId(stackId, sourceRefs[1]),
                                                  output.outputId, output.Value))]
            ELSE g,
            stackId, outputs, i + 1)

RECURSIVE extractDependencies(_, _, _, _, _)
extractDependencies(g, stackId, resourceId, dependsOn, i) ==
  IF i > Len(dependsOn) THEN g
  ELSE extractDependencies(
         graphAddEdge(g, [from |-> resourceId,
                          to |-> getQualifiedId(stackId, dependsOn[i]),
                          type |-> DEPENDS_ON, crossStack |-> Undefined]),
         stackId, resourceId, dependsOn, i + 1)

RECURSIVE extractReferences(_, _, _, _, _)
extractReferences(g, stackId, resourceId, refs, i) ==
  IF i > Len(refs) THEN g
  ELSE extractReferences(
         IF HasNode(g.nodes, getQualifiedId(stackId, refs[i]))
         THEN graphAddEdge(g, [from |-> resourceId,
                               to |-> getQualifiedId(stackId, refs[i]),
                               type |-> REFERENCE, crossStack |-> Undefined])
         ELSE g,
         stackId, resourceId, refs, i + 1)

(* extractImports, and the second pass of parseMultiple for one node.      *)
RECURSIVE extractImports(_, _, _, _)
extractImports(g, resourceId, imports, i) ==
  IF i > Len(imports) THEN g
  ELSE extractImports(
         IF getExportNode(g.exports, imports[i]) # <<>>
         THEN graphAddEdge(g, ImportEdge(resourceId, getExportNode(g.exports, imports[i])))
         ELSE g,
         resourceId, imports, i + 1)

RECURSIVE parseEdges(_, _, _, _)
parseEdges(g, stackId, resources, i) ==
  IF i > Len(resources) THEN g
  ELSE LET resource == resources[i]
           qualifiedId == getQualifiedId(stackId, resource.logicalId)
           g1 == extractDependencies(g, stackId, qualifiedId, resource.DependsOn, 1)
           g2 == extractReferences(g1, stackId, qualifiedId,
                                   findReferences(resource.Properties, <<>>), 1)
           g3 == extractImports(g2, qualifiedId,
                                findImports(resource.Properties, <<>>), 1)
       IN parseEdges(g3, stackId, resources, i + 1)

parse(template) ==
  parseEdges(
    parseOutputs(
      parseNodes(EmptyGraph, template.stackId, template.Resources, 1),
      template.stackId, template.Outputs, 1),
    template.stackId, template.Resources, 1)

(* parseMultiple: the first pass merges the graph of each stack.           *)
RECURSIVE mergeNodes(_, _, _)
mergeNodes(g, ns, i) ==
  IF i > Len(ns) THEN g
  ELSE mergeNodes([g EXCEPT !.nodes = NodesSet(g.nodes, ns[i])], ns, i + 1)

RECURSIVE mergeEdges(_, _, _)
mergeEdges(g, es, i) ==
  IF i > Len(es) THEN g ELSE mergeEdges(graphAddEdge(g, es[i]), es, i + 1)

RECURSIVE mergeExports(_, _, _)
mergeExports(g, xs, i) ==
  IF i > Len(xs) THEN g
  ELSE mergeExports(
         [g EXCEPT !.exports =
            ExportsSet(g.exports, xs[i].name,
                       registerExportInfo(xs[i].nodeId, xs[i].outputId, xs[i].value))],
         xs, i + 1)

RECURSIVE mergeStacks(_, _, _)
mergeStacks(g, stacks, i) ==
  IF i > Len(stacks) THEN g
  ELSE LET stackGraph == parse(stacks[i])
       IN mergeStacks(
            mergeExports(mergeEdges(mergeNodes(g, stackGraph.nodes, 1),
                                    stackGraph.edges, 1),
                         stackGraph.exports, 1),
            stacks, i + 1)

(* The second pass resolves the imports of every node of the merged graph. *)
RECURSIVE resolveImports(_, _)
resolveImports(g, i) ==
  IF i > Len(g.nodes) THEN g
  ELSE resolveImports(
         extractImports(g, g.nodes[i].id, findImports(g.nodes[i].properties, <<>>), 1),
         i + 1)

parseMultiple(stacks) == resolveImports(mergeStacks(EmptyGraph, stacks, 1), 1)

(***************************************************************************)
(* CloudFormationGenerator.  A template is its resources, in the order of  *)
(* their keys, and its outputs; Outputs is <<>> for a template without an  *)
(* Outputs field (the field is only ever set to a non-empty object).       *)
(***************************************************************************)
ExportType == "AWS::CloudFormation::Export"

getLocalId(qualifiedId) ==
  IF \E i \in 1..Len(qualifiedId) : qualifiedId[i] = "."
  THEN LET first == CHOOSE i \in 1..Len(qualifiedId) :
                      /\ qualifiedId[i] = "."
                      /\ \A j \in 1..(i - 1) : qualifiedId[j] # "."
       IN SubSeq(qualifiedId, first + 1, Len(qualifiedId))
  ELSE qualifiedId

(* A value that counts as true in a condition.                             *)
Truthy(value) == value.t # "undefined" /\ ~(value.t = "string" /\ value.s = <<>>)

(* A Map or an object as a sequence of entries in insertion order.         *)
EntryHas(entries, key) == \E i \in 1..Len(entries) : entries[i].key = key

EntryGet(entries, key) == entries[CHOOSE i \in 1..Len(entries) : entries[i].key = key].value

EntrySet(entries, key, value) ==
  IF EntryHas(entries, key)
  THEN [i \in 1..Len(entries) |->
          IF entries[i].key = key THEN [key |-> key, value |-> value] ELSE entries[i]]
  ELSE Append(entries, [key |-> key, value |-> value])

ImportValue(name) == Obj(<<"Fn::ImportValue">>, <<name>>)

RECURSIVE replaceRefs(_, _)
replaceRefs(obj, importMap) ==
  IF obj.t \notin {"object", "array"} THEN obj
  ELSE IF obj.t = "array"
  THEN Arr([i \in 1..Len(obj.kids) |-> replaceRefs(obj.kids[i], importMap)])
  ELSE LET ref == Field(obj, "Ref")
           getAtt == Field(obj, "Fn::GetAtt")
           target == IF getAtt.t = "array"
                     THEN (IF Len(getAtt.kids) > 0 THEN getAtt.kids[1] ELSE Undef)
                     ELSE getAtt
       IN IF ref.t = "string" /\ ref.s # <<>> /\ EntryHas(importMap, ref.s)
          THEN ImportValue(EntryGet(importMap, ref.s))
          ELSE IF Truthy(getAtt) /\ target.t = "string" /\ EntryHas(importMap, target.s)
          THEN ImportValue(EntryGet(importMap, target.s))
          ELSE Obj(obj.keys, [i \in 1..Len(obj.kids) |-> replaceRefs(obj.kids[i], importMap)])

(* The edges getEdges(nodeId) returns that leave the node and are of the   *)
(* kind.                                                                   *)
edgesFrom(es, nodeId, type) ==
  SelectIdx(es, {i \in 1..Len(es) : /\ es[i].from = nodeId \/ es[i].to = nodeId
                                    /\ es[i].from = nodeId
                                    /\ es[i].type = type}, 1)

RECURSIVE setImports(_, _, _, _)
setImports(importMap, exportEdges, name, i) ==
  IF i > Len(exportEdges) THEN importMap
  ELSE setImports(EntrySet(importMap, getLocalId(exportEdges[i].to), name),
                  exportEdges, name, i + 1)

RECURSIVE buildImportMap(_, _, _, _)
buildImportMap(g, importEdges, importMap, i) ==
  IF i > Len(importEdges) THEN importMap
  ELSE LET to == importEdges[i].to
           next == IF HasNode(g.nodes, to) /\ GetNode(g.nodes, to).type = ExportType
                   THEN setImports(importMap, edgesFrom(g.edges, to, EXPORT),
                                   Field(GetNode(g.nodes, to).properties, "Name"), 1)
                   ELSE importMap
       IN buildImportMap(g, importEdges, next, i + 1)

transformProperties(properties, nodeId, g) ==
  LET importEdges == edgesFrom(g.edges, nodeId, IMPORT_VALUE)
  IN IF Len(importEdges) = 0 THEN properties
     ELSE replaceRefs(properties, buildImportMap(g, importEdges, <<>>, 1))

Policies == <<"CreationPolicy", "DeletionPolicy", "UpdatePolicy", "UpdateReplacePolicy">>

(* The object without the policy keys.                                     *)
otherMetadata(metadata) ==
  LET keep == {i \in 1..Len(metadata.keys) : metadata.keys[i] \notin Range(Policies)}
  IN Obj(SelectIdx(metadata.keys, keep, 1), SelectIdx(metadata.kids, keep, 1))

(* A policy is copied when it is set.                                      *)
policy(metadata, key) ==
  IF metadata.t # "undefined" /\ Truthy(Field(metadata, key)) THEN Field(metadata, key) ELSE Undef

dependencies(es, nodeId) ==
  LET all == edgesFrom(es, nodeId, DEPENDS_ON)
      deps == SelectIdx(all, {i \in 1..Len(all) : all[i].crossStack # "true"}, 1)
  IN IF Len(deps) = 0 THEN Undef
     ELSE IF Len(deps) = 1 THEN Str(getLocalId(deps[1].to))
     ELSE Arr([i \in 1..Len(deps) |-> Str(getLocalId(deps[i].to))])

resourceOf(g, node) ==
  [Type |-> node.type,
   Properties |-> transformProperties(node.properties, node.id, g),
   Metadata |-> IF node.metadata.t # "undefined" /\ Len(otherMetadata(node.metadata).keys) > 0
                THEN otherMetadata(node.metadata) ELSE Undef,
   CreationPolicy |-> policy(node.metadata, Policies[1]),
   DeletionPolicy |-> policy(node.metadata, Policies[2]),
   UpdatePolicy |-> policy(node.metadata, Policies[3]),
   UpdateReplacePolicy |-> policy(node.metadata, Policies[4]),
   DependsOn |-> dependencies(g.edges, node.id)]

RECURSIVE generateResources(_, _, _, _)
generateResources(g, ns, resources, i) ==
  IF i > Len(ns) THEN resources
  ELSE IF ns[i].type = ExportType THEN generateResources(g, ns, resources, i + 1)
  ELSE generateResources(g, ns,
         EntrySet(resources, getLocalId(ns[i].id), resourceOf(g, ns[i])), i + 1)

(* localId.replace('Export.', ''): the first 'Export.' is taken out.       *)
outputIdOf(localId) ==
  IF \E i \in 1..(Len(localId) - 1) : localId[i] = "Export" /\ localId[i + 1] = "."
  THEN LET first == CHOOSE i \in 1..(Len(localId) - 1) :
                      /\ localId[i] = "Export" /\ localId[i + 1] = "."
                      /\ \A j \in 1..(i - 1) : ~(localId[j] = "Export" /\ localId[j + 1] = ".")
       IN SubSeq(localId, 1, first - 1) \o SubSeq(localId, first + 2, Len(localId))
  ELSE localId

RECURSIVE generateOutputs(_, _, _)
generateOutputs(ns, outputs, i) ==
  IF i > Len(ns) THEN outputs
  ELSE IF ns[i].type = ExportType
  THEN generateOutputs(ns,
         EntrySet(outputs, outputIdOf(getLocalId(ns[i].id)),
                  [Value |-> Field(ns[i].properties, "Value"),
                   Name |-> Field(ns[i].properties, "Name")]), i + 1)
  ELSE generateOutputs(ns, outputs, i + 1)

(* generate(graph, stackId) without metadata; <<>> is the stackId left out *)
generate(g, stackId) ==
  LET ns == IF stackId # <<>>
            THEN SelectIdx(g.nodes, {i \in 1..Len(g.nodes) : g.nodes[i].stackId = stackId}, 1)
            ELSE g.nodes
  IN [AWSTemplateFormatVersion |-> "2010-09-09",
      Resources |-> generateResources(g, ns, <<>>, 1),
      Outputs |-> generateOutputs(ns, <<>>, 1)]

RECURSIVE getAllStacks(_, _, _)
getAllStacks(ns, stacks, i) ==
  IF i > Len(ns) THEN stacks
  ELSE getAllStacks(ns, IF ns[i].stackId # <<>> THEN AddUnique(stacks, ns[i].stackId) ELSE stacks,
                    i + 1)

generateMultiple(g) ==
  LET stacks == getAllStacks(g.nodes, <<>>, 1)
  IN [i \in 1..Len(stacks) |-> [key |-> stacks[i], value |-> generate(g, stacks[i])]]

(***************************************************************************)
(* The callers' inputs: the templates of the tests on moveNode (two        *)
(* stacks; a bucket and a function that refers to it and depends on it; a  *)
(* queue in the other stack), as they are or with a policy that also       *)
(* refers to the bucket and with outputs that export a resource.           *)
(***************************************************************************)
Bucket == <<"Bucket">>
Function == <<"Function">>
Policy == <<"Policy">>
Queue == <<"Queue">>
NewName == <<"NewName">>
stack1 == <<"stack1">>
stack2 == <<"stack2">>
SharedBucket == <<"SharedBucket">>

Resource(logicalId, type, properties, dependsOn, deletionPolicy) ==
  [logicalId |-> logicalId, Type |-> type, Properties |-> properties,
   DependsOn |-> dependsOn, Metadata |-> EmptyObject,
   DeletionPolicy |-> deletionPolicy]

BucketResource == Resource(Bucket, "AWS::S3::Bucket", EmptyObject, <<>>, <<"Retain">>)

FunctionResource(dependsOn) ==
  Resource(Function, "AWS::Lambda::Function",
           Obj(<<"Environment">>,
               <<Obj(<<"Variables">>, <<Obj(<<"BUCKET">>, <<Ref(Bucket)>>)>>)>>),
           dependsOn, <<>>)

PolicyResource ==
  Resource(Policy, "AWS::S3::BucketPolicy",
           Obj(<<"Bucket", "Resource">>, <<Ref(Bucket), GetAtt(Bucket, <<"Arn">>)>>),
           <<>>, <<>>)

QueueResource(properties) == Resource(Queue, "AWS::SQS::Queue", properties, <<>>, <<>>)

Output(outputId, value, exportName) ==
  [outputId |-> outputId, Value |-> value, ExportName |-> exportName]

TemplateChoices == {"plain", "policy", "shared", "collision"}

Stack1Template(outputs) ==
  [stackId |-> stack1,
   Resources |-> <<BucketResource, FunctionResource(<<Bucket>>)>>
                 \o (IF outputs = "plain" THEN <<>> ELSE <<PolicyResource>>),
   Outputs |-> IF outputs = "shared"
               THEN <<Output(<<"BucketOut">>, Ref(Bucket), SharedBucket)>>
               ELSE IF outputs = "collision"
               THEN <<Output(<<"PolicyOut">>, Ref(Policy), stack1 \o <<"-">> \o Bucket)>>
               ELSE <<>>]

Stack2Template(outputs) ==
  [stackId |-> stack2,
   Resources |-> <<QueueResource(IF outputs = "shared"
                                 THEN Obj(<<"Source">>,
                                          <<Obj(<<"Fn::ImportValue">>, <<Str(SharedBucket)>>)>>)
                                 ELSE EmptyObject)>>,
   Outputs |-> <<>>]

StackIds == {stack1, stack2}
LogicalIds == {Bucket, Function, Policy, Queue, NewName}
Locations == [stackId : StackIds, logicalId : LogicalIds]
NoLocation == [stackId |-> <<>>, logicalId |-> <<>>]
AllIds == {getQualifiedId(l.stackId, l.logicalId) : l \in Locations}

(* Destinations of a move: the same name, a new name, or the bucket's.     *)
Destinations(from) ==
  [stackId : StackIds, logicalId : {from.logicalId, NewName, Bucket}]

(* Nodes the callers add directly.                                         *)
AddedNodes ==
  {resourceNode(s, r) : s \in StackIds, r \in {BucketResource, FunctionResource(<<>>)}}

(* Edges the callers add directly, built as the parser builds them:        *)
(* DependsOn, Reference and GetAtt edges inside one stack without a        *)
(* crossStack flag, ImportValue edges between stacks with crossStack true. *)
EdgeEnds == [stackId : StackIds, logicalId : {Bucket, Function}]

AddedEdges ==
  {[from |-> getQualifiedId(p[1].stackId, p[1].logicalId),
    to |-> getQualifiedId(p[2].stackId, p[2].logicalId),
    type |-> p[3],
    crossStack |-> IF p[3] = IMPORT_VALUE THEN "true" ELSE Undefined] :
     p \in {q \in EdgeEnds \X EdgeEnds \X {DEPENDS_ON, REFERENCE, GET_ATT, IMPORT_VALUE} :
              (q[3] = IMPORT_VALUE) = (q[1].stackId # q[2].stackId)}}

(* Export names the callers register: one of their own, and one of the     *)
(* form moveNode synthesizes.                                              *)
(* Edges of the other kinds between the stacks or inside one, with the     *)
(* crossStack flag true exactly when the two ends are in different stacks. *)
FlagEnds == [stackId : StackIds, logicalId : {Bucket, Function, Queue}]

FlaggedEdges ==
  {[from |-> getQualifiedId(p[1].stackId, p[1].logicalId),
    to |-> getQualifiedId(p[2].stackId, p[2].logicalId),
    type |-> p[3],
    crossStack |-> IF p[1].stackId # p[2].stackId THEN "true" ELSE Undefined] :
     p \in {q \in FlagEnds \X FlagEnds \X {DEPENDS_ON, REFERENCE, EXPORT} : q[1] # q[2]}}

(* Export nodes, built as the parser that made export nodes built them.    *)
ExportNode(stackId, outputId, name, value) ==
  [id |-> getQualifiedId(stackId, <<"Export", ".">> \o outputId),
   type |-> ExportType,
   properties |-> Obj(<<"Name", "Value">>, <<Str(name), value>>),
   metadata |-> Undef,
   stackId |-> stackId]

ExportNodes == {ExportNode(s, <<"BucketOutput">>, SharedBucket, Ref(Bucket)) : s \in StackIds}

ExportNames == {SharedBucket, stack1 \o <<"-">> \o Bucket}

(***************************************************************************)
(* The state: the graph, the outcome of the last call and the calls made.  *)
(***************************************************************************)
Called(op, err, path, targets) ==
  [op |-> op, err |-> err, path |-> path, targets |-> targets]

Entry(op, tag, from, to) == [op |-> op, tag |-> tag, from |-> from, to |-> to]

(* In the history, a call other than parseMultiple and a successful move   *)
(* only counts.                                                            *)
OtherCall == Entry("call", "", NoLocation, NoLocation)

Graph == [nodes |-> nodes, edges |-> edges, exports |-> exports]

(* No store has been returned by opposite().                               *)
NoStore == [made |-> 0, edges |-> <<>>, exports |-> <<>>]

Init ==
  /\ nodes = <<>>
  /\ edges = <<>>
  /\ exports = <<>>
  /\ last = Called("new", NoError, "", <<>>)
  /\ history = <<>>
  /\ reversed = NoStore
  /\ templates = <<>>

(* parser.parseMultiple on a fresh graph.                                  *)
Parse(outputs) ==
  LET g == parseMultiple(<<Stack1Template(outputs), Stack2Template(outputs)>>)
  IN /\ history = <<>>
     /\ nodes' = g.nodes
     /\ edges' = g.edges
     /\ exports' = g.exports
     /\ last' = Called("parseMultiple", NoError, "", <<>>)
     /\ history' = <<Entry("parseMultiple", outputs, NoLocation, NoLocation)>>
     /\ UNCHANGED <<reversed, templates>>

AddNode(node) ==
  /\ Len(history) < MaxCalls
  /\ nodes' = NodesSet(nodes, node)
  /\ last' = Called("addNode", NoError, "", <<>>)
  /\ history' = Append(history, OtherCall)
  /\ UNCHANGED <<edges, exports, reversed, templates>>

RemoveNode(id) ==
  /\ Len(history) < MaxCalls
  /\ nodes' = NodesDelete(nodes, id)
  /\ edges' = removeNodeEdges(edges, id)
  /\ exports' = removeNodeExports(exports, id)
  /\ last' = Called("removeNode", NoError, "", <<>>)
  /\ history' = Append(history, OtherCall)
  /\ UNCHANGED <<reversed, templates>>

AddEdge(edge) ==
  /\ Len(history) < MaxCalls
  /\ IF addEdgeThrows(nodes, edge)
     THEN /\ last' = Called("addEdge", "DanglingEdge", "throw", <<>>)
          /\ UNCHANGED edges
     ELSE /\ edges' = addEdgePush(edges, edge)
          /\ last' = Called("addEdge", NoError, "", <<>>)
  /\ history' = Append(history, OtherCall)
  /\ UNCHANGED <<nodes, exports, reversed, templates>>

RemoveEdge(from, to) ==
  /\ Len(history) < MaxCalls
  /\ edges' = removeEdgeFilter(edges, from, to)
  /\ last' = Called("removeEdge", NoError, "", <<>>)
  /\ history' = Append(history, OtherCall)
  /\ UNCHANGED <<nodes, exports, reversed, templates>>

RegisterExport(exportName, nodeId, outputId, value) ==
  /\ Len(history) < MaxCalls
  /\ exports' = ExportsSet(exports, exportName,
                           registerExportInfo(nodeId, outputId, value))
  /\ last' = Called("registerExport", NoError, "", <<>>)
  /\ history' = Append(history, OtherCall)
  /\ UNCHANGED <<nodes, edges, reversed, templates>>

MoveNode(from, to) ==
  LET r == moveNode(Graph, from, to)
      moved == r.path \in {"cross", "rename"}
  IN /\ Len(history) < MaxCalls
     /\ history' = Append(history,
                          IF moved THEN Entry("moveNode", "", from, to)
                          ELSE OtherCall)
     /\ last' = Called("moveNode", r.err, r.path, r.targets)
     /\ nodes' = r.nodes
     /\ edges' = r.edges
     /\ exports' = r.exports
     /\ UNCHANGED <<reversed, templates>>

Next ==
  \/ \E outputs \in TemplateChoices : Parse(outputs)
  \/ \E node \in AddedNodes : AddNode(node)
  \/ \E id \in AllIds : RemoveNode(id)
  \/ \E edge \in AddedEdges : AddEdge(edge)
  \/ \E i \in 1..Len(edges) : RemoveEdge(edges[i].from, edges[i].to)
  \/ \E name \in ExportNames, i \in 1..Len(nodes) :
       RegisterExport(name, nodes[i].id, <<>>, Undef)
  \/ \E from \in Locations : \E to \in Destinations(from) : MoveNode(from, to)

Spec == Init /\ [][Next]_vars

(***************************************************************************)
(* Renames: the same graph operations on templates whose function and      *)
(* queue carry a property tree that refers to the bucket of their stack in *)
(* the ways a template can (the test 'should update references when        *)
(* moving resource within same stack' has the first).                      *)
(***************************************************************************)
PropertyTrees ==
  {Obj(<<"Environment">>,
       <<Obj(<<"Variables">>, <<Obj(<<"BUCKET">>, <<Ref(Bucket)>>)>>)>>),
   Obj(<<"Arn", "Other">>, <<GetAtt(Bucket, <<"Arn">>), GetAtt(Queue, <<"Arn">>)>>),
   Obj(<<"Items">>, <<Arr(<<Ref(Bucket), Str(Bucket), Arr(<<GetAtt(Bucket, <<"Arn">>)>>)>>)>>),
   Obj(<<"Fn::Join">>, <<Arr(<<Str(<<"/">>), Arr(<<Ref(Bucket), Ref(Function)>>)>>)>>),
   Obj(<<"Value">>, <<Obj(<<"Ref", "Extra">>, <<Str(Bucket), Ref(Bucket)>>)>>),
   Obj(<<"Name">>, <<Obj(<<"Fn::GetAtt">>, <<Str(Bucket \o <<".">> \o <<"Arn">>)>>)>>),
   Obj(<<"Attr">>, <<Obj(<<"Fn::GetAtt">>, <<Arr(<<Str(Bucket), Ref(Bucket)>>)>>)>>),
   Obj(<<"Bucket">>, <<Str(Bucket)>>)}

RenameStack1(tree) ==
  [stackId |-> stack1,
   Resources |-> <<BucketResource,
                   Resource(Function, "AWS::Lambda::Function", tree, <<>>, <<>>)>>,
   Outputs |-> <<Output(<<"BucketOut">>, Ref(Bucket), SharedBucket)>>]

RenameStack2(tree) ==
  [stackId |-> stack2,
   Resources |-> <<BucketResource, QueueResource(tree)>>,
   Outputs |-> <<>>]

(* parser.parseMultiple on a fresh graph, for these templates.             *)
ParseProperties(tree) ==
  LET g == parseMultiple(<<RenameStack1(tree), RenameStack2(tree)>>)
  IN /\ history = <<>>
     /\ nodes' = g.nodes
     /\ edges' = g.edges
     /\ exports' = g.exports
     /\ last' = Called("parseMultiple", NoError, "", <<>>)
     /\ history' = <<Entry("parseMultiple", "properties", NoLocation, NoLocation)>>
     /\ UNCHANGED <<reversed, templates>>

NextRename ==
  \/ \E tree \in PropertyTrees : ParseProperties(tree)
  \/ \E from \in Locations : \E to \in Destinations(from) : MoveNode(from, to)

SpecRename == Init /\ [][NextRename]_vars

(***************************************************************************)
(* Sorting: a bucket, a queue and a topic of one stack, added in any order *)
(* (the tests of 'Topological Sort'), edges between any two of them, and   *)
(* calls of getAllNodesSorted.  last.targets holds the ids of the nodes    *)
(* returned.                                                               *)
(***************************************************************************)
Topic == <<"Topic">>

SortNode(logicalId) ==
  [id |-> getQualifiedId(stack1, logicalId), type |-> "AWS::Resource",
   properties |-> EmptyObject, metadata |-> Undef, stackId |-> stack1]

SortNames == {Bucket, Queue, Topic}

SortOrders ==
  {order \in [1..3 -> SortNames] : \A i, j \in 1..3 : order[i] = order[j] => i = j}

SortEdges ==
  {[from |-> getQualifiedId(stack1, a), to |-> getQualifiedId(stack1, b),
    type |-> DEPENDS_ON, crossStack |-> Undefined] : a, b \in SortNames}

(* graph.addNode for the three nodes, in the order given.                  *)
AddSortNodes(order) ==
  /\ nodes = <<>>
  /\ nodes' = NodesSet(NodesSet(NodesSet(nodes, SortNode(order[1])),
                                SortNode(order[2])), SortNode(order[3]))
  /\ last' = Called("addNode", NoError, "", <<>>)
  /\ UNCHANGED <<edges, exports, history, reversed, templates>>

AddSortEdge(edge) ==
  /\ Len(edges) < MaxEdges
  /\ ~addEdgeThrows(nodes, edge)
  /\ edges' = addEdgePush(edges, edge)
  /\ last' = Called("addEdge", NoError, "", <<>>)
  /\ UNCHANGED <<nodes, exports, history, reversed, templates>>

RemoveSortEdge(from, to) ==
  /\ edges' = removeEdgeFilter(edges, from, to)
  /\ last' = Called("removeEdge", NoError, "", <<>>)
  /\ UNCHANGED <<nodes, exports, history, reversed, templates>>

GetAllNodesSorted ==
  LET r == getAllNodesSorted(nodes, edges)
  IN /\ nodes # <<>>
     /\ last' = Called("getAllNodesSorted", r.err, "",
                       [i \in 1..Len(r.result) |-> r.result[i].id])
     /\ UNCHANGED <<nodes, edges, exports, history, reversed, templates>>

NextSort ==
  \/ \E order \in SortOrders : AddSortNodes(order)
  \/ \E edge \in SortEdges : AddSortEdge(edge)
  \/ \E i \in 1..Len(edges) : RemoveSortEdge(edges[i].from, edges[i].to)
  \/ GetAllNodesSorted

SpecSort == Init /\ [][NextSort]_vars

(***************************************************************************)
(* Flags: the parsed fixtures, edges added with their crossStack flag set  *)
(* by the caller, and moves.                                               *)
(***************************************************************************)
NextFlags ==
  \/ \E outputs \in TemplateChoices : Parse(outputs)
  \/ \E edge \in FlaggedEdges : AddEdge(edge)
  \/ \E from \in Locations : \E to \in Destinations(from) : MoveNode(from, to)

SpecFlags == Init /\ [][NextFlags]_vars

(***************************************************************************)
(* Readers: a caller reads the graph and assigns to a field of an object   *)
(* it was handed, or adds a node and assigns to a field of the object it   *)
(* passed, or pushes onto an array it was handed.                          *)
(***************************************************************************)
Mutated == "Mutated"

NodeWrites == {"type", "stackId", "properties"}
EdgeWrites == {"to", "type", "crossStack"}
ExportWrites == {"nodeId", "outputId"}

(* The value a caller assigns to a field.                                  *)
Written(field) ==
  CASE field = "type" -> Mutated
    [] field = "stackId" -> <<Mutated>>
    [] field = "properties" -> Str(<<Mutated>>)
    [] field = "to" -> getQualifiedId(stack2, Queue)
    [] field = "crossStack" -> "true"
    [] field = "nodeId" -> getQualifiedId(stack2, Queue)
    [] field = "outputId" -> <<Mutated>>

Mutate(reader, object, field) ==
  LET g == assign(Graph, object, field, Written(field))
  IN /\ Len(history) < MaxCalls
     /\ nodes' = g.nodes
     /\ edges' = g.edges
     /\ exports' = g.exports
     /\ last' = Called("mutate", NoError, reader, <<>>)
     /\ history' = Append(history, OtherCall)
     /\ UNCHANGED <<reversed, templates>>

MutateGetNode(id, write) ==
  /\ HasNode(nodes, id)
  /\ Mutate("getNode", getNode(nodes, id), write)

MutateGetAllNodes(i, write) ==
  /\ i \in 1..Len(getAllNodes(nodes))
  /\ Mutate("getAllNodes", getAllNodes(nodes)[i], write)

MutateGetNodesByStack(stackId, i, write) ==
  /\ i \in 1..Len(getNodesByStack(nodes, stackId))
  /\ Mutate("getNodesByStack", getNodesByStack(nodes, stackId)[i], write)

MutateGetEdges(nodeId, i, write) ==
  /\ i \in 1..Len(getEdges(edges, nodeId))
  /\ Mutate("getEdges", getEdges(edges, nodeId)[i], write)

MutateGetExports(i, write) ==
  /\ i \in 1..Len(getExports(exports))
  /\ Mutate("getExports", getExports(exports)[i].info, write)

(* getEdges().push(edge), getAllNodes().pop(), getExports().clear(): the   *)
(* array or Map is the caller's.                                           *)
MutateReturnedCollection(reader) ==
  /\ Len(history) < MaxCalls
  /\ nodes # <<>>
  /\ last' = Called("mutateCollection", NoError, reader, <<>>)
  /\ history' = Append(history, OtherCall)
  /\ UNCHANGED <<nodes, edges, exports, reversed, templates>>

(* graph.addNode(node); node.field = value                                 *)
AddNodeThenMutate(node, write) ==
  LET g == assign([Graph EXCEPT !.nodes = NodesSet(nodes, node)],
                  NodeObject(node.id), write, Written(write))
  IN /\ Len(history) < MaxCalls
     /\ nodes' = g.nodes
     /\ last' = Called("addNode", NoError, "mutate", <<node.id>>)
     /\ history' = Append(history, OtherCall)
     /\ UNCHANGED <<edges, exports, reversed, templates>>

NextReaders ==
  \/ \E outputs \in TemplateChoices : Parse(outputs)
  \/ \E id \in AllIds : \E write \in NodeWrites : MutateGetNode(id, write)
  \/ \E i \in 1..Len(nodes) : \E write \in NodeWrites : MutateGetAllNodes(i, write)
  \/ \E stackId \in StackIds : \E i \in 1..Len(nodes) : \E write \in NodeWrites :
       MutateGetNodesByStack(stackId, i, write)
  \/ \E nodeId \in {<<>>} \cup AllIds : \E i \in 1..Len(edges) : \E write \in EdgeWrites :
       MutateGetEdges(nodeId, i, write)
  \/ \E i \in 1..Len(exports) : \E write \in ExportWrites : MutateGetExports(i, write)
  \/ \E reader \in {"getAllNodes", "getNodesByStack", "getEdges", "getExports"} :
       MutateReturnedCollection(reader)
  \/ \E node \in AddedNodes : \E write \in NodeWrites : AddNodeThenMutate(node, write)

SpecReaders == Init /\ [][NextReaders]_vars

(***************************************************************************)
(* Generation: the parsed fixtures, export nodes added by the caller,      *)
(* moves, and generateMultiple.                                            *)
(***************************************************************************)
GenerateMultiple ==
  /\ Len(history) < MaxCalls
  /\ nodes # <<>>
  /\ templates' = generateMultiple(Graph)
  /\ last' = Called("generateMultiple", NoError, "", <<>>)
  /\ history' = Append(history, OtherCall)
  /\ UNCHANGED <<nodes, edges, exports, reversed>>

NextGenerate ==
  \/ \E outputs \in TemplateChoices : Parse(outputs)
  \/ \E node \in ExportNodes : AddNode(node)
  \/ \E from \in Locations : \E to \in Destinations(from) : MoveNode(from, to)
  \/ GenerateMultiple

SpecGenerate == Init /\ [][NextGenerate]_vars

(***************************************************************************)
(* Reversal: the graph operations, and calls of opposite() on the graph    *)
(* and on the graph that opposite() returned.  reversed holds the edges    *)
(* and exports of the store returned last and how many reversals made it;  *)
(* its node map is the node map of the graph, which the two stores share.  *)
(***************************************************************************)
Opposite ==
  LET r == opposite(Graph)
  IN /\ Len(history) < MaxCalls
     /\ nodes # <<>>
     /\ nodes' = r.nodes
     /\ reversed' = [made |-> 1, edges |-> r.edges, exports |-> r.exports]
     /\ last' = Called("opposite", NoError, "", <<>>)
     /\ history' = Append(history, OtherCall)
     /\ UNCHANGED <<edges, exports, templates>>

(* graph.opposite().opposite()                                             *)
OppositeOpposite ==
  LET r == opposite(opposite(Graph))
  IN /\ Len(history) < MaxCalls
     /\ nodes # <<>>
     /\ nodes' = r.nodes
     /\ reversed' = [made |-> 2, edges |-> r.edges, exports |-> r.exports]
     /\ last' = Called("opposite", NoError, "", <<>>)
     /\ history' = Append(history, OtherCall)
     /\ UNCHANGED <<edges, exports, templates>>

NextOpposite ==
  \/ \E outputs \in TemplateChoices : Parse(outputs)
  \/ \E edge \in AddedEdges : AddEdge(edge)
  \/ \E from \in Locations : \E to \in Destinations(from) : MoveNode(from, to)
  \/ Opposite
  \/ OppositeOpposite

SpecOpposite == Init /\ [][NextOpposite]_vars

(***************************************************************************)
(* Properties.  A property of one call is an action property: it relates   *)
(* the graph before the call (unprimed) to the graph after it (primed).    *)
(***************************************************************************)
IdOf(loc) == getQualifiedId(loc.stackId, loc.logicalId)

GraphUnchanged == UNCHANGED <<nodes, edges, exports>>

LastMove == history[Len(history)]

(* C4: moveNode fails with NotFound whenever no node occupies the source   *)
(* address, whatever the destination is, and then nodes, edges and exports *)
(* are exactly what they were before the call.                             *)
C4_NotFound ==
  [][(/\ last'.op = "moveNode"
      /\ \E from \in Locations : \E to \in Destinations(from) :
           ~HasNode(nodes, IdOf(from)) /\ MoveNode(from, to))
       => (last'.err = NotFound /\ GraphUnchanged)]_vars

(* A move from an empty address to an occupied one has failed.             *)
C4_Witness ==
  /\ last.op = "moveNode"
  /\ last.err = NotFound
  /\ nodes # <<>>

(* C5: moveNode fails with AlreadyExists whenever the source address holds *)
(* a node and the destination is occupied by a different node, and then    *)
(* nodes (with their property trees), edges and exports are unchanged.     *)
C5_AlreadyExists ==
  [][(/\ last'.op = "moveNode"
      /\ \E from \in Locations : \E to \in Destinations(from) :
           /\ HasNode(nodes, IdOf(from))
           /\ IdOf(to) # IdOf(from)
           /\ HasNode(nodes, IdOf(to))
           /\ MoveNode(from, to))
       => (last'.err = AlreadyExists /\ GraphUnchanged)]_vars

C5_Witness ==
  /\ last.op = "moveNode"
  /\ last.err = AlreadyExists
  /\ Len(nodes) >= 2

(* C6: moveNode to the address the node is at succeeds without an error    *)
(* and leaves nodes, node order, edges and exports unchanged.              *)
C6_SameAddress ==
  [][(/\ last'.op = "moveNode"
      /\ \E from \in Locations : HasNode(nodes, IdOf(from)) /\ MoveNode(from, from))
       => (last'.err = NoError /\ GraphUnchanged)]_vars

(* A move to the same address has returned, in a graph where the order of  *)
(* the nodes could have changed and edges and exports exist.               *)
C6_Witness ==
  /\ last.op = "moveNode"
  /\ last.path = "same"
  /\ Len(nodes) >= 2
  /\ edges # <<>>
  /\ exports # <<>>

(***************************************************************************)
(* Properties of a move between stacks.                                    *)
(***************************************************************************)
RefTypes == {REFERENCE, GET_ATT}

EdgesBetween(es, a, b) == {i \in 1..Len(es) : es[i].from = a /\ es[i].to = b}

(* a has one reference to b, and besides it DependsOn edges only.          *)
RefersOnce(es, a, b) ==
  /\ Cardinality({i \in EdgesBetween(es, a, b) : es[i].type \in RefTypes}) = 1
  /\ \A i \in EdgesBetween(es, a, b) : es[i].type \in RefTypes \cup {DEPENDS_ON}

(* a has exactly one edge to b, an import with crossStack = true.          *)
ImportsOnce(es, a, b) ==
  /\ Cardinality(EdgesBetween(es, a, b)) = 1
  /\ \A i \in EdgesBetween(es, a, b) :
       es[i].type = IMPORT_VALUE /\ es[i].crossStack = "true"

ExportsOf(xs, id) == {i \in 1..Len(xs) : xs[i].nodeId = id}

Occurrences(seq, x) == Cardinality({i \in 1..Len(seq) : seq[i] = x})

(* The step is a successful call moveNode(from, to) with from # to, which  *)
(* the history records.                                                    *)
Moves(from, to) ==
  /\ history' = Append(history, Entry("moveNode", "", from, to))
  /\ HasNode(nodes, IdOf(from))
  /\ last'.err = NoError
  /\ IdOf(from) # IdOf(to)
  /\ MoveNode(from, to)

C2_BothRelocated ==
  LET moveBucket == Entry("moveNode", "", [stackId |-> stack1, logicalId |-> Bucket],
                          [stackId |-> stack2, logicalId |-> Bucket])
      moveFunction == Entry("moveNode", "", [stackId |-> stack1, logicalId |-> Function],
                            [stackId |-> stack2, logicalId |-> Function])
      function == getQualifiedId(stack2, Function)
      bucket == getQualifiedId(stack2, Bucket)
      between == EdgesBetween(edges, function, bucket)
  IN (/\ Len(history) = 3
      /\ history[1] = Entry("parseMultiple", "plain", NoLocation, NoLocation)
      /\ {history[2], history[3]} = {moveBucket, moveFunction})
       => /\ \E i \in between :
               edges[i].type = REFERENCE /\ edges[i].crossStack # "true"
          /\ \A i \in between : edges[i].type # IMPORT_VALUE
          /\ \E i \in between : edges[i].type = DEPENDS_ON
          /\ ExportsOf(exports, bucket) = {}

(* C3: after a successful moveNode(from, to) with from # to the old id is  *)
(* absent and the new id holds the moved node (same kind, properties and   *)
(* metadata, id = new id, stackId = to.stackId); every other node keeps    *)
(* its id, kind and group; every edge with neither endpoint at the moved   *)
(* node is unchanged; and every export that is not sourced from the moved  *)
(* node and not consumed by an import edge of the moved node is unchanged. *)
C3_MoveFrame ==
  [][\A from \in Locations : \A to \in Destinations(from) :
       Moves(from, to) =>
         LET old == IdOf(from)
             new == IdOf(to)
             node == GetNode(nodes, old)
             Apart(e) == e.from # old /\ e.to # old
             ApartAfter(e) == e.from # new /\ e.to # new
             importedByMoved(id) ==
               \E k \in 1..Len(edges) :
                 /\ edges[k].type = IMPORT_VALUE
                 /\ {edges[k].from, edges[k].to} = {old, id}
         IN /\ ~HasNode(nodes', old)
            /\ HasNode(nodes', new)
            /\ GetNode(nodes', new) =
                 [id |-> new, type |-> node.type, properties |-> node.properties,
                  metadata |-> node.metadata, stackId |-> to.stackId]
            /\ \A i \in 1..Len(nodes) :
                 nodes[i].id # old =>
                   /\ HasNode(nodes', nodes[i].id)
                   /\ GetNode(nodes', nodes[i].id).type = nodes[i].type
                   /\ GetNode(nodes', nodes[i].id).stackId = nodes[i].stackId
            /\ Len(nodes') = Len(nodes)
            /\ SelectSeq(edges', ApartAfter) = SelectSeq(edges, Apart)
            /\ \A i \in 1..Len(exports) :
                 (exports[i].nodeId # old /\ ~importedByMoved(exports[i].nodeId))
                   => exports[i] \in Range(exports')]_vars

NamesIn(tree) == Range(findReferences(tree, <<>>))

(* after is before with its references to old naming new: a Ref of old is  *)
(* a Ref of new, a GetAtt of old is a GetAtt of new with the same          *)
(* attribute path, and the rest of the tree is the same tree.              *)
RECURSIVE Renamed(_, _, _, _)
Renamed(before, after, old, new) ==
  IF before.t \notin {"object", "array"} THEN after = before
  ELSE IF before.t = "array"
  THEN /\ after.t = "array"
       /\ Len(after.kids) = Len(before.kids)
       /\ \A i \in 1..Len(before.kids) : Renamed(before.kids[i], after.kids[i], old, new)
  ELSE IF Field(before, "Ref") = Str(old)
  THEN Field(after, "Ref") = Str(new)
  ELSE IF /\ Field(before, "Fn::GetAtt").t = "array"
          /\ Len(Field(before, "Fn::GetAtt").kids) > 0
          /\ Field(before, "Fn::GetAtt").kids[1] = Str(old)
  THEN LET path == Tail(Field(before, "Fn::GetAtt").kids)
           att == Field(after, "Fn::GetAtt")
       IN /\ att.t = "array"
          /\ Len(att.kids) = Len(path) + 1
          /\ att.kids[1] = Str(new)
          /\ \A i \in 1..Len(path) : Renamed(path[i], att.kids[i + 1], old, new)
  ELSE /\ after.t = "object"
       /\ after.keys = before.keys
       /\ \A i \in 1..Len(before.kids) : Renamed(before.kids[i], after.kids[i], old, new)

(* C7: after moveNode renames a node from OldName to NewName inside one    *)
(* group, no other node of the group has a Ref or Fn::GetAtt naming        *)
(* OldName in its property tree, each such construct names NewName (a      *)
(* GetAtt keeps its attribute path), the property trees of the nodes of    *)
(* other groups are unchanged, no edge changes kind or crossStack flag and *)
(* no export is created or deleted.                                        *)
C7_Rename ==
  [][\A from \in Locations : \A to \in Destinations(from) :
       (from.stackId = to.stackId /\ Moves(from, to)) =>
         /\ \A i \in 1..Len(nodes) :
              nodes[i].id # IdOf(from) =>
                LET before == nodes[i].properties
                    after == GetNode(nodes', nodes[i].id).properties
                IN IF nodes[i].stackId = from.stackId
                   THEN /\ from.logicalId \notin NamesIn(after)
                        /\ Renamed(before, after, from.logicalId, to.logicalId)
                   ELSE after = before
         /\ Len(edges') = Len(edges)
         /\ \A k \in 1..Len(edges) :
              /\ edges'[k].type = edges[k].type
              /\ edges'[k].crossStack = edges[k].crossStack
         /\ [k \in 1..Len(exports') |-> exports'[k].name]
              = [k \in 1..Len(exports) |-> exports[k].name]]_vars

(***************************************************************************)
(* Properties of getAllNodesSorted.                                        *)
(***************************************************************************)
(* b is reached from a along at least one and at most n edges.             *)
RECURSIVE ReachedIn(_, _, _, _)
ReachedIn(es, a, b, n) ==
  /\ n > 0
  /\ \E i \in 1..Len(es) :
       /\ es[i].from = a
       /\ (es[i].to = b \/ ReachedIn(es, es[i].to, b, n - 1))

HasCycle(es) == \E i \in 1..Len(es) : ReachedIn(es, es[i].from, es[i].from, Len(es))

PositionIn(seq, x) == CHOOSE i \in 1..Len(seq) : seq[i] = x

(* The step is a call of getAllNodesSorted.                                *)
Sorts == last'.op = "getAllNodesSorted" /\ GetAllNodesSorted

(* C11: on a graph whose edges form no directed cycle getAllNodesSorted    *)
(* returns each node exactly once, in an order in which for every edge     *)
(* from -> to the node to comes before the node from.                      *)
C11_SortedOrder ==
  [][(Sorts /\ ~HasCycle(edges)) =>
       /\ last'.err = NoError
       /\ Len(last'.targets) = Len(nodes)
       /\ \A i \in 1..Len(nodes) : Occurrences(last'.targets, nodes[i].id) = 1
       /\ \A k \in 1..Len(edges) :
            PositionIn(last'.targets, edges[k].to)
              < PositionIn(last'.targets, edges[k].from)]_vars

(* The topic, added first, depends on the queue, which depends on the      *)
(* bucket, added last: the sort has returned bucket, queue, topic.         *)
C11_Witness ==
  /\ last.op = "getAllNodesSorted"
  /\ last.err = NoError
  /\ nodes[1].id = getQualifiedId(stack1, Topic)
  /\ nodes[3].id = getQualifiedId(stack1, Bucket)
  /\ EdgesBetween(edges, getQualifiedId(stack1, Topic), getQualifiedId(stack1, Queue)) # {}
  /\ EdgesBetween(edges, getQualifiedId(stack1, Queue), getQualifiedId(stack1, Bucket)) # {}
  /\ last.targets = <<getQualifiedId(stack1, Bucket), getQualifiedId(stack1, Queue),
                      getQualifiedId(stack1, Topic)>>

(* C12: getAllNodesSorted fails with CycleDetected if and only if the      *)
(* edges contain a directed cycle, a self-edge included; a failing call    *)
(* returns no partial order and leaves nodes, edges and exports unchanged  *)
(* (so the next call on the same graph fails the same way, and a call      *)
(* after the cycle is broken succeeds).                                    *)
C12_CycleDetected ==
  [][Sorts =>
       /\ (last'.err = CycleDetected) = HasCycle(edges)
       /\ last'.err \in {CycleDetected, NoError}
       /\ last'.err = CycleDetected => (last'.targets = <<>> /\ GraphUnchanged)]_vars

(* The sort has failed on a cycle through the three nodes.                 *)
C12_Witness ==
  /\ last.op = "getAllNodesSorted"
  /\ last.err = CycleDetected
  /\ Len(edges) = 3
  /\ \A k \in 1..Len(edges) :
       /\ edges[k].from # edges[k].to
       /\ EdgesBetween(edges, edges[k].to, edges[k].from) = {}

(* C9: removeNode(n) removes node n, every edge whose source or target is  *)
(* n and every export sourced from n; all other nodes, edges (with their   *)
(* order) and exports are unchanged.                                       *)
C9_RemoveNode ==
  [][\A id \in AllIds :
       RemoveNode(id) =>
         LET OtherNode(n) == n.id # id
             OtherEdge(e) == e.from # id /\ e.to # id
             OtherExport(x) == x.nodeId # id
         IN /\ nodes' = SelectSeq(nodes, OtherNode)
            /\ edges' = SelectSeq(edges, OtherEdge)
            /\ exports' = SelectSeq(exports, OtherExport)]_vars

(* A removal has taken the function with its two edges and left the other  *)
(* nodes, two edges and an export behind.                                  *)
C9_Witness ==
  /\ last.op = "removeNode"
  /\ history[1].tag = "shared"
  /\ ~HasNode(nodes, getQualifiedId(stack1, Function))
  /\ Len(nodes) = 3
  /\ Len(edges) = 2
  /\ exports # <<>>

(* C10: addEdge fails with DanglingEdge if the source or the target of the *)
(* edge is not a node, leaving nodes, edges and exports unchanged;         *)
(* otherwise it appends the edge to the edge list and changes nothing else.*)
C10_AddEdge ==
  [][\A edge \in AddedEdges :
       AddEdge(edge) =>
         IF ~HasNode(nodes, edge.from) \/ ~HasNode(nodes, edge.to)
         THEN last'.err = "DanglingEdge" /\ GraphUnchanged
         ELSE /\ last'.err = NoError
              /\ edges' = edges \o <<edge>>
              /\ UNCHANGED <<nodes, exports>>]_vars

(* An edge with exactly one missing endpoint has been refused.             *)
C10_Witness ==
  /\ last.op = "addEdge"
  /\ last.err = "DanglingEdge"
  /\ \E edge \in AddedEdges : HasNode(nodes, edge.from) /\ ~HasNode(nodes, edge.to)
  /\ edges # <<>>



(***************************************************************************)
(* Reversal                                                                *)
(***************************************************************************)
Reverses == last'.op = "opposite" /\ Opposite

ReversesTwice == last'.op = "opposite" /\ OppositeOpposite

Swapped(edge) ==
  [from |-> edge.to, to |-> edge.from, type |-> edge.type, crossStack |-> edge.crossStack]

SameEdgeMultiset(es1, es2) ==
  /\ Len(es1) = Len(es2)
  /\ \A e \in Range(es1) \cup Range(es2) : Occurrences(es1, e) = Occurrences(es2, e)

(* C13: opposite() returns a store with the same nodes, with exactly one   *)
(* edge (to, from, kind, crossStack) for every edge (from, to, kind,       *)
(* crossStack) of the original and no other edge, and with the same export *)
(* registrations; the call leaves the nodes, edges and exports of the      *)
(* original as they were.                                                  *)
C13_Opposite ==
  [][Reverses =>
       /\ reversed'.made = 1
       /\ nodes' = nodes
       /\ Len(reversed'.edges) = Len(edges)
       /\ \A e \in Range(edges) :
            Occurrences(reversed'.edges, Swapped(e)) = Occurrences(edges, e)
       /\ \A r \in Range(reversed'.edges) : \E e \in Range(edges) : r = Swapped(e)
       /\ Len(reversed'.exports) = Len(exports)
       /\ Range(reversed'.exports) = Range(exports)
       /\ GraphUnchanged]_vars

(* A reversal of a graph that holds a cross-stack import edge beside a     *)
(* same-stack reference, and an export registration.                       *)
C13_Witness ==
  /\ last.op = "opposite"
  /\ reversed.made = 1
  /\ exports # <<>>
  /\ \E i \in 1..Len(edges) :
       /\ edges[i].type = IMPORT_VALUE
       /\ edges[i].crossStack = "true"
       /\ reversed.edges[i] = Swapped(edges[i])
       /\ reversed.edges[i] # edges[i]
  /\ \E i \in 1..Len(edges) : edges[i].crossStack = Undefined
  /\ reversed.exports = exports

(* C14: the edges of g.opposite().opposite(), as a multiset of (source,    *)
(* target, kind, crossStack flag), are the edges of g.                     *)
C14_OppositeTwice ==
  [][ReversesTwice => SameEdgeMultiset(reversed'.edges, edges)]_vars

(* A double reversal of a graph with a flagged and an unflagged edge, one  *)
(* of them present twice.                                                  *)
C14_Witness ==
  /\ last.op = "opposite"
  /\ reversed.made = 2
  /\ \E e \in Range(edges) : e.crossStack = "true" /\ e.from # e.to
  /\ \E e \in Range(edges) : e.crossStack = Undefined /\ Occurrences(edges, e) = 2
  /\ SameEdgeMultiset(reversed.edges, edges)


(***************************************************************************)
(* The crossStack flag                                                     *)
(***************************************************************************)
StackOf(ns, id) == GetNode(ns, id).stackId

Moved == last'.op = "moveNode" /\ last'.err = NoError /\ history' # history

FlagsExact(ns, es) ==
  \A i \in 1..Len(es) :
    (es[i].type # IMPORT_VALUE /\ HasNode(ns, es[i].from) /\ HasNode(ns, es[i].to)) =>
      ((es[i].crossStack = "true") <=> (StackOf(ns, es[i].from) # StackOf(ns, es[i].to)))

ImportsCross(ns, es) ==
  \A i \in 1..Len(es) :
    es[i].type = IMPORT_VALUE =>
      /\ es[i].crossStack = "true"
      /\ HasNode(ns, es[i].from) /\ HasNode(ns, es[i].to)
      /\ StackOf(ns, es[i].from) # StackOf(ns, es[i].to)

(* C15: if every edge of a kind other than ImportValue has crossStack true *)
(* exactly when its two ends are in different stacks, the same is true     *)
(* after a successful moveNode: a move across stacks, a move back into the *)
(* stack of the other end, or a rename.                                    *)
C15_FlagInvariant ==
  [][(Moved /\ FlagsExact(nodes, edges)) => FlagsExact(nodes', edges')]_vars

(* C16: if every ImportValue edge has crossStack true and its two ends in  *)
(* different stacks, the same is true after a successful moveNode: no      *)
(* ImportValue edge ever joins two nodes of one stack.                     *)
C16_ImportsCrossGroups ==
  [][(Moved /\ ImportsCross(nodes, edges)) => ImportsCross(nodes', edges')]_vars


(***************************************************************************)
(* Ownership                                                               *)
(***************************************************************************)
(* C17: after a caller assigns to a field of a value returned by getNode,  *)
(* getAllNodes, getNodesByStack, getEdges or getExports, the nodes, edges  *)
(* and exports of the graph are what they were before the assignment; and  *)
(* after a caller assigns to a field of the node it passed to addNode, the *)
(* node kept by the graph is the node as it was passed.                    *)
C17_NoAliases ==
  [][/\ last'.op = "mutate" => GraphUnchanged
     /\ \A node \in AddedNodes :
          (last'.op = "addNode" /\ last'.path = "mutate" /\ last'.targets = <<node.id>>)
            => GetNode(nodes', node.id) = node]_vars


(***************************************************************************)
(* Generation                                                              *)
(***************************************************************************)
Generates == last'.op = "generateMultiple" /\ history' # history

(* The registrations whose source node is a node of the stack.             *)
SourcedIn(stackId) ==
  {k \in 1..Len(exports) :
     HasNode(nodes, exports[k].nodeId) /\ StackOf(nodes, exports[k].nodeId) = stackId}

Exporting(output, k) ==
  output.value.Name = Str(exports[k].name) /\ output.value.Value = exports[k].value

(* C18: the template generated for a stack has one output per export       *)
(* registration whose source node is in the stack, with the export name    *)
(* and the value of the registration, and no output for a registration     *)
(* sourced elsewhere; so after a move has made an export for a node, the   *)
(* template of the node's stack has an output exporting it.                *)
C18_Outputs ==
  [][Generates =>
       \A i \in 1..Len(templates') :
         LET outputs == templates'[i].value.Outputs
             own == SourcedIn(templates'[i].key)
         IN /\ \A k \in own :
                 Cardinality({o \in 1..Len(outputs) : Exporting(outputs[o], k)}) = 1
            /\ \A o \in 1..Len(outputs) : \E k \in own : Exporting(outputs[o], k)]_vars

NamesReferred(tree) == Range(findReferences(tree, <<>>))

NamesImported(tree) == Range(findImports(tree, <<>>))

(* C19: where a node has an ImportValue edge to a node of another stack    *)
(* that has an export registration, the template generated for the node's  *)
(* stack has, in the place of every Ref and Fn::GetAtt of the node's       *)
(* properties that names the target, an Fn::ImportValue of the export's    *)
(* name; the references to nodes of the node's own stack stay.             *)
C19_Imports ==
  [][Generates =>
       \A e \in Range(edges) :
         (/\ e.type = IMPORT_VALUE
          /\ HasNode(nodes, e.from) /\ HasNode(nodes, e.to)
          /\ StackOf(nodes, e.from) # StackOf(nodes, e.to)
          /\ \E k \in 1..Len(exports) : exports[k].nodeId = e.to) =>
           LET node == GetNode(nodes, e.from)
               target == getLogicalId(e.to)
               template == EntryGet(templates', node.stackId)
               generated == EntryGet(template.Resources, getLogicalId(node.id)).Properties
               own == {getLogicalId(n.id) : n \in {m \in Range(nodes) : m.stackId = node.stackId}}
           IN /\ target \notin NamesReferred(generated)
              /\ target \in NamesReferred(node.properties) =>
                   \E k \in 1..Len(exports) :
                     exports[k].nodeId = e.to /\ exports[k].name \in NamesImported(generated)
              /\ \A name \in (NamesReferred(node.properties) \cap own) \ {target} :
                   name \in NamesReferred(generated)]_vars


(***************************************************************************)
(* DependsOn edges in a move                                               *)
(***************************************************************************)
EndAfter(id, old, new) == IF id = old THEN new ELSE id

Rewritten(e, old, new) ==
  [e EXCEPT !.from = EndAfter(e.from, old, new), !.to = EndAfter(e.to, old, new)]

NamesOf(xs) == {xs[i].name : i \in 1..Len(xs)}

CountEdges(es, Test(_)) == Cardinality({i \in 1..Len(es) : Test(es[i])})

(* What C20 says of the DependsOn edges at the moved node that meet the    *)
(* condition Scope.                                                        *)
DependsOnRule(old, new, Scope(_)) ==
  \A e \in {d \in Range(edges) :
              d.type = DEPENDS_ON /\ (d.from = old \/ d.to = old) /\ Scope(d)} :
    LET after == Rewritten(e, old, new)
        Here(x) == x.from = e.from /\ x.to = e.to
        There(x) == x.from = after.from /\ x.to = after.to
        Same(x) == x = e
        SameAfter(x) == x = after
        KeptHere(x) == Here(x) /\ x.type # DEPENDS_ON
        ImportThere(x) == There(x) /\ x.type = IMPORT_VALUE
        ImportOrRefHere(x) == Here(x) /\ x.type \in {IMPORT_VALUE, REFERENCE, GET_ATT}
        DependsOnThere(x) == There(x) /\ x.type = DEPENDS_ON
        refers == \E x \in Range(edges) :
                    /\ x.type \in {REFERENCE, GET_ATT}
                    /\ x.from = old \/ x.to = old
    IN IF StackOf(nodes', after.from) # StackOf(nodes', after.to)
       THEN /\ CountEdges(edges', DependsOnThere) = 0
            /\ CountEdges(edges', There) = CountEdges(edges, KeptHere)
            /\ CountEdges(edges', ImportThere) <= CountEdges(edges, ImportOrRefHere)
            /\ ~refers => /\ Len(exports') = Len(exports)
                           /\ NamesOf(exports') = NamesOf(exports)
       ELSE CountEdges(edges', SameAfter) = CountEdges(edges, Same)

(* C20: a DependsOn edge at the moved node whose ends are in different     *)
(* stacks after the move is removed, is not converted to an ImportValue    *)
(* edge and makes no export registration; a DependsOn edge whose ends are  *)
(* in one stack after the move is kept, its end rewritten to the new id.   *)
C20_DependsOn ==
  [][\A from \in Locations : \A to \in Destinations(from) :
       Moves(from, to) =>
         LET Any(d) == TRUE
         IN DependsOnRule(IdOf(from), IdOf(to), Any)]_vars


(***************************************************************************)
(* Conversion back and pruning                                             *)
(***************************************************************************)
(* The ImportValue edges at the moved node whose two ends are in one stack *)
(* after the move, as they were before it.                                 *)
Reunited(old, new) ==
  {e \in Range(edges) :
     /\ e.type = IMPORT_VALUE
     /\ e.from = old \/ e.to = old
     /\ LET after == Rewritten(e, old, new)
        IN /\ HasNode(nodes', after.from) /\ HasNode(nodes', after.to)
           /\ StackOf(nodes', after.from) = StackOf(nodes', after.to)}

(* C21: when moveNode places a node so that an ImportValue edge at it has  *)
(* both ends in one stack, the edge becomes a Reference or GetAtt edge     *)
(* with crossStack not set, and afterwards a DependsOn edge from the same  *)
(* source to the same target exists, none being added when one existed.    *)
C21_ConversionBack ==
  [][\A from \in Locations : \A to \in Destinations(from) :
       Moves(from, to) =>
         \A e \in Reunited(IdOf(from), IdOf(to)) :
           LET after == Rewritten(e, IdOf(from), IdOf(to))
               Here(x) == x.from = e.from /\ x.to = e.to
               There(x) == x.from = after.from /\ x.to = after.to
               ImportThere(x) == There(x) /\ x.type = IMPORT_VALUE
               RefThere(x) == There(x) /\ x.type \in RefTypes /\ x.crossStack # "true"
               DependsOnHere(x) == Here(x) /\ x.type = DEPENDS_ON
               DependsOnThere(x) == There(x) /\ x.type = DEPENDS_ON
           IN /\ CountEdges(edges', ImportThere) = 0
              /\ CountEdges(edges', RefThere) >= 1
              /\ CountEdges(edges', DependsOnThere) =
                   IF CountEdges(edges, DependsOnHere) = 0 THEN 1
                   ELSE CountEdges(edges, DependsOnHere)]_vars


(* An ImportValue edge between two stacks that targets the node.           *)
ImportedAcross(ns, es, id) ==
  \E x \in Range(es) :
    /\ x.type = IMPORT_VALUE /\ x.to = id
    /\ HasNode(ns, x.from) /\ HasNode(ns, x.to)
    /\ StackOf(ns, x.from) # StackOf(ns, x.to)

(* C22: when a move brings the two ends of an ImportValue edge into one    *)
(* stack, the export the edge consumed is deleted if no ImportValue edge   *)
(* left between two stacks targets the export's source node, and is kept   *)
(* if one does; so no export survives without an edge that consumes it.    *)
C22_ExportPruning ==
  [][\A from \in Locations : \A to \in Destinations(from) :
       Moves(from, to) =>
         \A e \in Reunited(IdOf(from), IdOf(to)) :
           LET target == Rewritten(e, IdOf(from), IdOf(to)).to
           IN IF ImportedAcross(nodes', edges', target)
              THEN {exports[k].name : k \in ExportsOf(exports, e.to)}
                     \subseteq {exports'[k].name : k \in ExportsOf(exports', target)}
              ELSE ExportsOf(exports', target) = {}]_vars


(***************************************************************************)
(* The exports made for converted edges                                    *)
(***************************************************************************)
(* The Reference and GetAtt edges between the moved node and another node  *)
(* that a move across stacks separates, as they were before the move.      *)
Separated(old, new) ==
  {e \in Range(edges) :
     /\ e.type \in RefTypes
     /\ e.from # e.to
     /\ e.from = old \/ e.to = old
     /\ LET after == Rewritten(e, old, new)
        IN /\ StackOf(nodes, e.from) = StackOf(nodes, e.to)
           /\ StackOf(nodes', after.from) # StackOf(nodes', after.to)}

IsGetAttOf(value, name) ==
  LET getAtt == Field(value, "Fn::GetAtt")
  IN getAtt.t = "array" /\ Len(getAtt.kids) >= 2 /\ getAtt.kids[1] = Str(name)

(* The value has the form of the edge and names the target.                *)
FormOf(value, type, name) ==
  IF type = GET_ATT THEN IsGetAttOf(value, name) ELSE value = Ref(name)

(* C23: the export registered for a converted edge captures a value of the *)
(* form of the edge: a Ref of the target's name for a Reference edge, an   *)
(* Fn::GetAtt of the target and an attribute for a GetAtt edge, never a    *)
(* plain Ref in its place.                                                 *)
C23_CapturedValue ==
  [][\A from \in Locations : \A to \in Destinations(from) :
       Moves(from, to) =>
         \A e \in Separated(IdOf(from), IdOf(to)) :
           LET target == Rewritten(e, IdOf(from), IdOf(to)).to
           IN ExportsOf(exports, e.to) = {} =>
                \E k \in ExportsOf(exports', target) :
                  FormOf(exports'[k].value, e.type, getLogicalId(target))]_vars


(* What an export exposes, as the kind of edge that consumes it: an        *)
(* attribute of its source node for GetAtt, the node itself otherwise.     *)
Exposes(value, type) ==
  (type = GET_ATT) <=> (Field(value, "Fn::GetAtt").t = "array")

Exposing(xs, id, type) == {k \in ExportsOf(xs, id) : Exposes(xs[k].value, type)}

(* C24: when an edge is converted, an export is reused only if it is       *)
(* sourced from the edge's target and exposes what the edge refers to (the *)
(* node for a Reference, an attribute for a GetAtt); an export of the      *)
(* target that exposes something else is not reused, and a separate export *)
(* is registered beside it.                                                *)
C24_ReuseByPair ==
  [][\A from \in Locations : \A to \in Destinations(from) :
       Moves(from, to) =>
         \A e \in Separated(IdOf(from), IdOf(to)) :
           LET target == Rewritten(e, IdOf(from), IdOf(to)).to
               before == Exposing(exports, e.to, e.type)
               after == Exposing(exports', target, e.type)
           IN /\ before # {} => Cardinality(after) = Cardinality(before)
              /\ (before = {} /\ ExportsOf(exports, e.to) # {}) =>
                   /\ Cardinality(ExportsOf(exports', target))
                        > Cardinality(ExportsOf(exports, e.to))
                   /\ \A k \in ExportsOf(exports, e.to) :
                        \E m \in ExportsOf(exports', target) :
                          exports'[m].name = exports[k].name]_vars


(* C25: after a successful moveNode every export whose source was the old  *)
(* id of the moved node has the new id as its source, under the same name, *)
(* getExportNode(name) returns the new id, and no export names the old id. *)
C25_ExportsFollow ==
  [][\A from \in Locations : \A to \in Destinations(from) :
       Moves(from, to) =>
         /\ \A k \in ExportsOf(exports, IdOf(from)) :
              /\ HasExport(exports', exports[k].name)
              /\ getExportNode(exports', exports[k].name) = IdOf(to)
         /\ ExportsOf(exports', IdOf(from)) = {}]_vars


(***************************************************************************)
(* The order of unrelated nodes in getAllNodesSorted                       *)
(***************************************************************************)
Unrelated(es, a, b) ==
  a # b /\ ~ReachedIn(es, a, b, Len(es)) /\ ~ReachedIn(es, b, a, Len(es))

(* The place in the node map of the first node that is the node or reaches *)
(* it along the edges.                                                     *)
FirstReaching(ns, es, id) ==
  LET reaching == {i \in 1..Len(ns) :
                     ns[i].id = id \/ ReachedIn(es, ns[i].id, id, Len(es))}
  IN CHOOSE i \in reaching : \A j \in reaching : i <= j

(* C26, as stated: of two nodes with no ordering constraint between them   *)
(* the one inserted earlier comes earlier in the result of                 *)
(* getAllNodesSorted; a graph without edges is returned in insertion order.*)
C26_InsertionOrder ==
  [][(Sorts /\ ~HasCycle(edges)) =>
       \A i, j \in 1..Len(nodes) :
         (i < j /\ Unrelated(edges, nodes[i].id, nodes[j].id)) =>
           PositionIn(last'.targets, nodes[i].id) < PositionIn(last'.targets, nodes[j].id)]_vars

(* C26, amended: of two nodes with no ordering constraint between them the *)
(* one comes earlier whose first reaching node (the node itself or a node  *)
(* that depends on it, whichever was inserted first) was inserted earlier; *)
(* a graph without edges is returned in insertion order.                   *)
C26_RootOrder ==
  [][(Sorts /\ ~HasCycle(edges)) =>
       /\ \A i, j \in 1..Len(nodes) :
            (/\ Unrelated(edges, nodes[i].id, nodes[j].id)
             /\ FirstReaching(nodes, edges, nodes[i].id)
                  < FirstReaching(nodes, edges, nodes[j].id)) =>
              PositionIn(last'.targets, nodes[i].id) < PositionIn(last'.targets, nodes[j].id)
       /\ edges = <<>> => last'.targets = [i \in 1..Len(nodes) |-> nodes[i].id]]_vars

(* Bucket, Queue and Topic inserted in this order, Bucket depending on     *)
(* Topic: Topic comes before the unrelated Queue, which was there first.   *)
C26_Witness ==
  /\ last.op = "getAllNodesSorted"
  /\ last.err = NoError
  /\ [i \in 1..Len(nodes) |-> getLogicalId(nodes[i].id)] = <<Bucket, Queue, Topic>>
  /\ [i \in 1..Len(edges) |-> <<edges[i].from, edges[i].to>>]
       = <<<<getQualifiedId(stack1, Bucket), getQualifiedId(stack1, Topic)>>>>
  /\ last.targets = <<getQualifiedId(stack1, Topic), getQualifiedId(stack1, Bucket),
                      getQualifiedId(stack1, Queue)>>


(***************************************************************************)
(* Two stores over one node map: the graph and the store that opposite()   *)
(* returned.  A call on the returned store works on the shared node map    *)
(* and on the returned store's own edges and exports.                      *)
(***************************************************************************)
OppositeGraph == [nodes |-> nodes, edges |-> reversed.edges, exports |-> reversed.exports]

(* opposite().removeNode(id)                                               *)
RemoveNodeOfOpposite(id) ==
  /\ Len(history) < MaxCalls
  /\ reversed.made > 0
  /\ nodes' = NodesDelete(nodes, id)
  /\ reversed' = [reversed EXCEPT !.edges = removeNodeEdges(@, id),
                                  !.exports = removeNodeExports(@, id)]
  /\ last' = Called("opposite.removeNode", NoError, "", <<>>)
  /\ history' = Append(history, OtherCall)
  /\ UNCHANGED <<edges, exports, templates>>

(* opposite().moveNode(from, to)                                           *)
MoveNodeOfOpposite(from, to) ==
  LET r == moveNode(OppositeGraph, from, to)
  IN /\ Len(history) < MaxCalls
     /\ reversed.made > 0
     /\ nodes' = r.nodes
     /\ reversed' = [reversed EXCEPT !.edges = r.edges, !.exports = r.exports]
     /\ last' = Called("opposite.moveNode", r.err, r.path, r.targets)
     /\ history' = Append(history, OtherCall)
     /\ UNCHANGED <<edges, exports, templates>>

(* opposite().addEdge(edge)                                                *)
AddEdgeOfOpposite(edge) ==
  /\ Len(history) < MaxCalls
  /\ reversed.made > 0
  /\ IF addEdgeThrows(nodes, edge)
     THEN /\ last' = Called("opposite.addEdge", "DanglingEdge", "throw", <<>>)
          /\ UNCHANGED reversed
     ELSE /\ reversed' = [reversed EXCEPT !.edges = addEdgePush(@, edge)]
          /\ last' = Called("opposite.addEdge", NoError, "", <<>>)
  /\ history' = Append(history, OtherCall)
  /\ UNCHANGED <<nodes, edges, exports, templates>>

NextShared ==
  \/ \E outputs \in TemplateChoices : Parse(outputs)
  \/ \E node \in AddedNodes : AddNode(node)
  \/ \E id \in AllIds : RemoveNode(id)
  \/ \E edge \in AddedEdges : AddEdge(edge)
  \/ \E i \in 1..Len(edges) : RemoveEdge(edges[i].from, edges[i].to)
  \/ \E from \in Locations : \E to \in Destinations(from) : MoveNode(from, to)
  \/ Opposite
  \/ \E id \in AllIds : RemoveNodeOfOpposite(id)
  \/ \E from \in Locations : \E to \in Destinations(from) : MoveNodeOfOpposite(from, to)
  \/ \E edge \in AddedEdges : AddEdgeOfOpposite(edge)

SpecShared == Init /\ [][NextShared]_vars

EndpointsIn(ns, es) ==
  \A e \in Range(es) : HasNode(ns, e.from) /\ HasNode(ns, e.to)

(* C27: in every reachable state every edge of the graph, and every edge   *)
(* of the store that opposite() returned from it, has both endpoints in    *)
(* the node map; removing or moving a node through either store leaves no  *)
(* edge of the other with an absent endpoint.                              *)
C27_ReferentialIntegrity ==
  /\ EndpointsIn(nodes, edges)
  /\ reversed.made > 0 => EndpointsIn(nodes, reversed.edges)


(* C28: a successful moveNode(from, to) leaves every export that was there *)
(* before and was not sourced from the moved node registered under its     *)
(* name and resolving to the same node, whatever names the move makes for  *)
(* the targets of the edges it converts; and every such target has an      *)
(* export of its own afterwards.                                           *)
C28_ExportsKept ==
  [][\A from \in Locations : \A to \in Destinations(from) :
       Moves(from, to) =>
         /\ \A k \in 1..Len(exports) :
              exports[k].nodeId # IdOf(from) =>
                /\ HasExport(exports', exports[k].name)
                /\ getExportNode(exports', exports[k].name) = exports[k].nodeId
         /\ \A t \in Range(last'.targets) : ExportsOf(exports', t) # {}]_vars


(* The captured value is a Ref or an Fn::GetAtt of the name.               *)
NamesLocal(value, name) == value = Ref(name) \/ IsGetAttOf(value, name)

(* Every export that captured a value names the local name of its source.  *)
ExportsNameSources(xs) ==
  \A k \in 1..Len(xs) :
    xs[k].value # Undef => NamesLocal(xs[k].value, getLogicalId(xs[k].nodeId))

(* C29: a successful moveNode(from, to), a rename included, keeps the      *)
(* exports consistent with the names of their sources: if every captured   *)
(* value named the local name of its source before the move, every         *)
(* captured value names the current local name of its source after it, and *)
(* no export of the moved node still refers to the old name.               *)
C29_ExportValuesFollow ==
  [][\A from \in Locations : \A to \in Destinations(from) :
       (Moves(from, to) /\ ExportsNameSources(exports)) =>
         ExportsNameSources(exports')]_vars


(* The edges from the node to itself.                                      *)
SelfEdges(id) == {e \in Range(edges) : e.from = id /\ e.to = id}

(* The node has no edge with another node.                                 *)
OnlySelfEdges(id) == \A e \in Range(edges) : (e.from = id \/ e.to = id) => e.from = e.to

(* C30: a successful moveNode(from, to) to another stack keeps every edge  *)
(* from the moved node to itself, with both endpoints at the new id and    *)
(* with its type and crossStack flag, as many times as it was there; no    *)
(* export names the old id, and a node whose only edges are self-edges     *)
(* gets no export at all.                                                  *)
C30_SelfEdges ==
  [][\A from \in Locations : \A to \in Destinations(from) :
       (Moves(from, to) /\ from.stackId # to.stackId) =>
         LET old == IdOf(from)
             new == IdOf(to)
         IN /\ \A e \in SelfEdges(old) :
                 Occurrences(edges', [e EXCEPT !.from = new, !.to = new])
                   = Occurrences(edges, e)
            /\ SelfEdges(old) # {} => ExportsOf(exports', old) = {}
            /\ (SelfEdges(old) # {} /\ OnlySelfEdges(old)) =>
                 {exports'[k].name : k \in 1..Len(exports')}
                   = {exports[k].name : k \in 1..Len(exports)}]_vars

====
